---- MODULE Spec2Model ----
(***************************************************************************)
(* Model of the question-answering pipeline of python-ai-service:          *)
(* AgentOrchestrator.process_question and the components it drives         *)
(* (QueryValidator, CacheManager, ShopifyClient, ConversationStore).       *)
(*                                                                         *)
(* A Python str is a sequence of one-character strings, so that            *)
(* upper(), lower(), split(), substring search and the regular             *)
(* expressions of the source are computed, not assumed.                    *)
(* An Optional value is <<>> (None) or <<v>>.                              *)
(***************************************************************************)
EXTENDS Integers, Sequences, FiniteSets, TLC

\* ------------------------------------------------------------------------
\* Text primitives (Python str methods used by the source)
\* ------------------------------------------------------------------------
LowerChars == <<"a","b","c","d","e","f","g","h","i","j","k","l","m","n","o","p","q","r","s","t","u","v","w","x","y","z">>

UpperChars == <<"A","B","C","D","E","F","G","H","I","J","K","L","M","N","O","P","Q","R","S","T","U","V","W","X","Y","Z">>

DigitChars == <<"0","1","2","3","4","5","6","7","8","9">>

Range(f) == {f[i] : i \in DOMAIN f}

LowerChar(c) ==
    IF c \in Range(UpperChars)
    THEN LowerChars[CHOOSE i \in 1..26 : UpperChars[i] = c]
    ELSE c

UpperChar(c) ==
    IF c \in Range(LowerChars)
    THEN UpperChars[CHOOSE i \in 1..26 : LowerChars[i] = c]
    ELSE c

\* str.lower()
Lower(s) == [i \in 1..Len(s) |-> LowerChar(s[i])]

\* str.upper()
Upper(s) == [i \in 1..Len(s) |-> UpperChar(s[i])]

\* characters matched by \s
IsSpace(c) == c \in {" ", "\t", "\n", "\r"}

\* characters matched by \w
IsWord(c) == c \in Range(LowerChars) \cup Range(UpperChars) \cup Range(DigitChars) \cup {"_"}

\* p occurs in s at 0-based offset i
OccursAt(s, p, i) == i + Len(p) <= Len(s) /\ SubSeq(s, i + 1, i + Len(p)) = p

\* the Python expression  p in s
Contains(s, p) == \E i \in 0..(Len(s) - Len(p)) : OccursAt(s, p, i)

\* str.find(p): the lowest 0-based offset, or -1
Find(s, p) ==
    IF Contains(s, p)
    THEN CHOOSE i \in 0..(Len(s) - Len(p)) :
            OccursAt(s, p, i) /\ \A j \in 0..(i - 1) : ~OccursAt(s, p, j)
    ELSE -1

\* str.count(c) for a single character
Count(s, c) == Cardinality({i \in 1..Len(s) : s[i] = c})

SetMin(S) == CHOOSE x \in S : \A y \in S : x <= y

SetMax(S) == CHOOSE x \in S : \A y \in S : x >= y

\* str.strip()
Strip(s) ==
    LET keep == {i \in 1..Len(s) : ~IsSpace(s[i])}
    IN  IF keep = {} THEN <<>> ELSE SubSeq(s, SetMin(keep), SetMax(keep))

\* str.split() without arguments: the maximal runs of non-whitespace
RECURSIVE SplitFrom(_, _)
SplitFrom(s, i) ==
    LET starts == {j \in i..Len(s) : ~IsSpace(s[j])}
    IN  IF starts = {} THEN <<>>
        ELSE LET b == SetMin(starts)
                 stops == {j \in b..Len(s) : IsSpace(s[j])}
                 e == IF stops = {} THEN Len(s) ELSE SetMin(stops) - 1
             IN  <<SubSeq(s, b, e)>> \o SplitFrom(s, e + 1)

Split(s) == SplitFrom(s, 1)

\* " ".join(words)
RECURSIVE JoinSpace(_)
JoinSpace(words) ==
    IF words = <<>> THEN <<>>
    ELSE IF Len(words) = 1 THEN words[1]
    ELSE words[1] \o <<" ">> \o JoinSpace(Tail(words))

\* ------------------------------------------------------------------------
\* Optional values and truthiness
\* ------------------------------------------------------------------------
None == <<>>

Some(v) == <<v>>

\* ------------------------------------------------------------------------
\* QueryValidator (agent/query_validator.py)
\* ------------------------------------------------------------------------
S_FROM == <<"F","R","O","M">>

S_SHOW == <<"S","H","O","W">>

S_SINCE == <<"S","I","N","C","E">>

S_UNTIL == <<"U","N","T","I","L">>

S_sales == <<"s","a","l","e","s">>

S_products == <<"p","r","o","d","u","c","t","s">>

S_inventory == <<"i","n","v","e","n","t","o","r","y">>

VALID_TABLES == <<S_sales, S_products, S_inventory>>

REQUIRED_CLAUSES == <<S_FROM, S_SHOW>>

\* An error message is the sequence of the pieces its f-string joins.
E_empty == <<"Query is empty">>

E_missing(clause) == <<"Missing required clause: ">> \o clause

E_invalid_table(table) ==
    <<"Invalid table: '">> \o table \o <<"'. Valid tables are: ">>
        \o S_sales \o <<", ">> \o S_products \o <<", ">> \o S_inventory

E_no_table == <<"Could not find table name after FROM clause">>

E_order == <<"FROM clause should come before SHOW clause">>

E_parens == <<"Unbalanced parentheses in query">>

E_until == <<"UNTIL clause used without SINCE clause">>

\* errors.extend over a filtered list
RECURSIVE SelectErrors(_, _)
SelectErrors(items, missing) ==
    IF items = <<>> THEN <<>>
    ELSE (IF missing[1] THEN <<items[1]>> ELSE <<>>)
            \o SelectErrors(Tail(items), Tail(missing))

\* a variant that requires FROM alone
_check_required_clauses_from_only(query) ==
    IF Contains(Upper(query), S_FROM) THEN <<>> ELSE <<E_missing(S_FROM)>>

_check_required_clauses(query) ==
    LET query_upper == Upper(query)
    IN  SelectErrors(
            [i \in 1..Len(REQUIRED_CLAUSES) |-> E_missing(REQUIRED_CLAUSES[i])],
            [i \in 1..Len(REQUIRED_CLAUSES) |-> ~Contains(query_upper, REQUIRED_CLAUSES[i])])

\* re.search(r"FROM\s+(\w+)", query, re.IGNORECASE): the 1-based positions i
\* at which FROM, then whitespace, then a word character can be matched
FromMatches(query) ==
    {i \in 1..Len(query) :
        /\ i + 4 <= Len(query)
        /\ Upper(SubSeq(query, i, i + 3)) = S_FROM
        /\ IsSpace(query[i + 4])
        /\ LET rest == {j \in (i + 4)..Len(query) : ~IsSpace(query[j])}
           IN  rest # {} /\ IsWord(query[SetMin(rest)])}

\* group(1) of the leftmost match, as an Optional
TableAfterFrom(query) ==
    IF FromMatches(query) = {} THEN None
    ELSE LET i == SetMin(FromMatches(query))
             b == SetMin({j \in (i + 4)..Len(query) : ~IsSpace(query[j])})
             stops == {j \in b..Len(query) : ~IsWord(query[j])}
             e == IF stops = {} THEN Len(query) ELSE SetMin(stops) - 1
         IN  Some(SubSeq(query, b, e))

\* a variant that accepts any table name
_check_table_any(query) ==
    IF TableAfterFrom(query) # None THEN <<>> ELSE <<E_no_table>>

_check_table(query) ==
    LET match == TableAfterFrom(query)
    IN  IF match # None
        THEN LET table == Lower(match[1])
             IN  IF table \notin Range(VALID_TABLES)
                 THEN <<E_invalid_table(table)>>
                 ELSE <<>>
        ELSE <<E_no_table>>

\* _check_fields only logs: its error list is never appended to
_check_fields(query) == <<>>

\* a variant that makes an aggregate without GROUP BY an error
_check_syntax_group_by(query) ==
    LET query_upper == Upper(query)
        from_pos == Find(query_upper, S_FROM)
        show_pos == Find(query_upper, S_SHOW)
    IN  (IF from_pos > show_pos /\ from_pos # -1 /\ show_pos # -1
         THEN <<E_order>> ELSE <<>>)
        \o (IF Count(query, "(") # Count(query, ")")
            THEN <<E_parens>> ELSE <<>>)
        \o (IF Contains(Lower(query), <<"s","u","m","(">>)
                /\ ~Contains(query_upper, <<"G","R","O","U","P"," ","B","Y">>)
            THEN <<<<"Aggregate used without GROUP BY">>>> ELSE <<>>)

_check_syntax(query) ==
    LET query_upper == Upper(query)
        from_pos == Find(query_upper, S_FROM)
        show_pos == Find(query_upper, S_SHOW)
    IN  (IF from_pos > show_pos /\ from_pos # -1 /\ show_pos # -1
         THEN <<E_order>> ELSE <<>>)
        \o (IF Count(query, "(") # Count(query, ")")
            THEN <<E_parens>> ELSE <<>>)

\* a variant that wants the SINCE before the UNTIL
_check_time_expressions_ordered(query) ==
    LET query_upper == Upper(query)
        since_pos == Find(query_upper, S_SINCE)
        until_pos == Find(query_upper, S_UNTIL)
    IN  IF until_pos # -1 /\ (since_pos = -1 \/ since_pos > until_pos)
        THEN <<E_until>> ELSE <<>>

_check_time_expressions(query) ==
    LET query_upper == Upper(query)
    IN  IF Contains(query_upper, S_UNTIL) /\ ~Contains(query_upper, S_SINCE)
        THEN <<E_until>> ELSE <<>>

\* a variant that stops at the first check that reports something
validate_first(query) ==
    IF query = <<>> \/ Strip(query) = <<>>
    THEN [valid |-> FALSE, errors |-> <<E_empty>>]
    ELSE LET q == Strip(query)
             errors == IF _check_required_clauses(q) # <<>> THEN _check_required_clauses(q)
                       ELSE IF _check_table(q) # <<>> THEN _check_table(q)
                       ELSE IF _check_syntax(q) # <<>> THEN _check_syntax(q)
                       ELSE _check_time_expressions(q)
         IN  [valid |-> Len(errors) = 0, errors |-> errors]

validate(query) ==
    IF query = <<>> \/ Strip(query) = <<>>
    THEN [valid |-> FALSE, errors |-> <<E_empty>>]
    ELSE LET q == Strip(query)
             errors == _check_required_clauses(q) \o _check_table(q)
                        \o _check_fields(q) \o _check_syntax(q)
                        \o _check_time_expressions(q)
         IN  [valid |-> Len(errors) = 0, errors |-> errors]

\* ------------------------------------------------------------------------
\* Python values that travel through dicts and JSON
\* ------------------------------------------------------------------------
PyNone == <<"none">>

PyStr(t) == <<"str", t>>

PyInt(n) == <<"int", n>>

PyBool(b) == <<"bool", b>>

\* bool(v)
PyTruthy(v) ==
    CASE v[1] = "none" -> FALSE
      [] v[1] = "str" -> v[2] # <<>>
      [] v[1] = "int" -> v[2] # 0
      [] v[1] = "bool" -> v[2]

\* dict.get(k) and dict.get(k, default)
Get(d, k) == IF k \in DOMAIN d THEN d[k] ELSE PyNone

GetDefault(d, k, default) == IF k \in DOMAIN d THEN d[k] ELSE default

\* {**a, **b}: the right operand wins
Merge(a, b) == b @@ a

\* str(n) for an integer
RECURSIVE NatText(_)
NatText(n) ==
    IF n < 10 THEN <<DigitChars[n + 1]>>
    ELSE NatText(n \div 10) \o <<DigitChars[(n % 10) + 1]>>

IntText(n) == IF n < 0 THEN <<"-">> \o NatText(0 - n) ELSE NatText(n)

DigitValue(c) == (CHOOSE i \in 1..10 : DigitChars[i] = c) - 1

RECURSIVE ParseNat(_)
ParseNat(t) ==
    IF Len(t) = 1 THEN DigitValue(t[1])
    ELSE 10 * ParseNat(SubSeq(t, 1, Len(t) - 1)) + DigitValue(t[Len(t)])

\* int(text)
ParseInt(t) == IF t[1] = "-" THEN 0 - ParseNat(Tail(t)) ELSE ParseNat(t)

\* ------------------------------------------------------------------------
\* json.dumps / json.loads of a query result (cache/redis_cache.py:117,145)
\* A document keeps the dict/list structure; every scalar is rendered to
\* its JSON text and parsed back from that text.
\* ------------------------------------------------------------------------
J_null == <<"n","u","l","l">>

J_true == <<"t","r","u","e">>

J_false == <<"f","a","l","s","e">>

DumpScalar(v) ==
    CASE v[1] = "none" -> J_null
      [] v[1] = "bool" -> (IF v[2] THEN J_true ELSE J_false)
      [] v[1] = "int" -> IntText(v[2])
      [] v[1] = "str" -> <<"\"">> \o v[2] \o <<"\"">>

LoadScalar(t) ==
    IF t[1] = "\"" THEN PyStr(SubSeq(t, 2, Len(t) - 1))
    ELSE IF t = J_null THEN PyNone
    ELSE IF t = J_true THEN PyBool(TRUE)
    ELSE IF t = J_false THEN PyBool(FALSE)
    ELSE PyInt(ParseInt(t))

\* the keys of a query result whose value is a list of row dicts
RowListKeys == {"data"}

json_dumps(value) ==
    [k \in DOMAIN value |->
        IF k \in RowListKeys
        THEN [i \in 1..Len(value[k]) |->
                [c \in DOMAIN value[k][i] |-> DumpScalar(value[k][i][c])]]
        ELSE DumpScalar(value[k])]

json_loads(doc) ==
    [k \in DOMAIN doc |->
        IF k \in RowListKeys
        THEN [i \in 1..Len(doc[k]) |->
                [c \in DOMAIN doc[k][i] |-> LoadScalar(doc[k][i][c])]]
        ELSE LoadScalar(doc[k])]

\* ------------------------------------------------------------------------
\* CacheManager and InMemoryCache (cache/redis_cache.py)
\* ------------------------------------------------------------------------
CACHE_TTL_SECONDS == 300

\* hashlib.md5(text).hexdigest()[:12], as a function of the hashed text
Md5Hex12(text) == <<"md5:">> \o text

\* a variant that hashes the query text as it was given
generate_key_raw(store_id, query) ==
    <<"shopify:analytics:", store_id, ":">> \o Md5Hex12(query)

\* a variant that folds the letter case and leaves the white space alone
generate_key_spaced(store_id, query) ==
    <<"shopify:analytics:", store_id, ":">> \o Md5Hex12(Lower(query))

generate_key(store_id, query) ==
    LET normalized_query == Lower(JoinSpace(Split(query)))
    IN  <<"shopify:analytics:", store_id, ":">> \o Md5Hex12(normalized_query)

\* a key/value map with per-entry expiry: key -> [value, expiry]
Remove(cache, key) == [k \in DOMAIN cache \ {key} |-> cache[k]]

\* a variant that still returns the value at the expiry instant
InMemoryCache_get_inclusive(cache, key, t) ==
    IF key \in DOMAIN cache
    THEN IF t <= cache[key].expiry
         THEN [value |-> Some(cache[key].value), cache |-> cache]
         ELSE [value |-> None, cache |-> Remove(cache, key)]
    ELSE [value |-> None, cache |-> cache]

\* InMemoryCache.get: [value |-> Optional, cache |-> the map afterwards]
InMemoryCache_get(cache, key, t) ==
    IF key \in DOMAIN cache
    THEN IF t < cache[key].expiry
         THEN [value |-> Some(cache[key].value), cache |-> cache]
         ELSE [value |-> None, cache |-> Remove(cache, key)]
    ELSE [value |-> None, cache |-> cache]

\* InMemoryCache.set
InMemoryCache_set(cache, key, value, ttl, t) ==
    (key :> [value |-> value, expiry |-> t + ttl]) @@ cache

\* InMemoryCache.delete
InMemoryCache_delete(cache, key) ==
    IF key \in DOMAIN cache
    THEN [deleted |-> TRUE, cache |-> Remove(cache, key)]
    ELSE [deleted |-> FALSE, cache |-> cache]

\* Redis GET: entries past their SETEX time-to-live are gone
Redis_get(db, key, t) ==
    IF key \in DOMAIN db /\ t < db[key].expiry
    THEN Some(db[key].value) ELSE None

\* Redis SETEX
Redis_setex(db, key, ttl, value, t) ==
    (key :> [value |-> value, expiry |-> t + ttl]) @@ db

\* CacheManager._get_redis: conn is the outcome of from_url + ping
_get_redis(use_redis, client, conn) ==
    IF ~use_redis THEN [use_redis |-> use_redis, client |-> client, redis |-> FALSE]
    ELSE IF client = None
         THEN IF conn = "ok"
              THEN [use_redis |-> TRUE, client |-> Some("redis"), redis |-> TRUE]
              ELSE [use_redis |-> FALSE, client |-> client, redis |-> FALSE]
         ELSE [use_redis |-> TRUE, client |-> client, redis |-> TRUE]

\* how a cache call met its backend: "connect" when connecting to Redis
\* failed (the in-process map is used from then on), "op" when the Redis
\* command raised, "none" otherwise
FaultOf(use_redis, client, conn, redis, op) ==
    IF use_redis /\ client = None /\ conn = "fail" THEN "connect"
    ELSE IF redis /\ op = "fault" THEN "op"
    ELSE "none"

\* CacheManager.get: conn is the outcome of connecting to Redis (when that
\* is attempted), op the outcome of the Redis GET.  result is the value
\* returned, None being <<>>.
CacheManager_get(use_redis, client, cache, db, key, conn, op, t) ==
    LET g == _get_redis(use_redis, client, conn)
        mem == InMemoryCache_get(cache, key, t)
        value == IF g.redis
                 THEN IF op = "ok" THEN Redis_get(db, key, t) ELSE None
                 ELSE mem.value
    IN  [use_redis |-> g.use_redis, client |-> g.client,
         cache |-> IF g.redis THEN cache ELSE mem.cache,
         hit |-> value # None,
         result |-> IF value # None THEN json_loads(value[1]) ELSE <<>>,
         fault |-> FaultOf(use_redis, client, conn, g.redis, op)]

\* a variant that writes to the in-process map when the Redis write raised
CacheManager_set_spill(use_redis, client, cache, db, key, value, ttl, conn, op, t) ==
    LET g == _get_redis(use_redis, client, conn)
        serialized == json_dumps(value)
    IN  [use_redis |-> g.use_redis, client |-> g.client,
         db |-> IF g.redis /\ op = "ok"
                THEN Redis_setex(db, key, ttl, serialized, t) ELSE db,
         cache |-> IF ~g.redis \/ op = "fault"
                   THEN InMemoryCache_set(cache, key, serialized, ttl, t) ELSE cache,
         ok |-> ~(g.redis /\ op = "fault"),
         fault |-> FaultOf(use_redis, client, conn, g.redis, op)]

\* CacheManager.set: op is the outcome of the Redis SETEX.  ok is the value
\* returned.
\* a variant that leaves an entry that is already there
CacheManager_set_absent(use_redis, client, cache, db, key, value, ttl, conn, op, t) ==
    LET g == _get_redis(use_redis, client, conn)
        serialized == json_dumps(value)
    IN  [use_redis |-> g.use_redis, client |-> g.client,
         db |-> IF g.redis /\ op = "ok" /\ key \notin DOMAIN db
                THEN Redis_setex(db, key, ttl, serialized, t) ELSE db,
         cache |-> IF ~g.redis /\ key \notin DOMAIN cache
                   THEN InMemoryCache_set(cache, key, serialized, ttl, t) ELSE cache,
         ok |-> ~(g.redis /\ op = "fault"),
         fault |-> FaultOf(use_redis, client, conn, g.redis, op)]

CacheManager_set(use_redis, client, cache, db, key, value, ttl, conn, op, t) ==
    LET g == _get_redis(use_redis, client, conn)
        serialized == json_dumps(value)
    IN  [use_redis |-> g.use_redis, client |-> g.client,
         db |-> IF g.redis /\ op = "ok"
                THEN Redis_setex(db, key, ttl, serialized, t) ELSE db,
         cache |-> IF ~g.redis
                   THEN InMemoryCache_set(cache, key, serialized, ttl, t) ELSE cache,
         ok |-> ~(g.redis /\ op = "fault"),
         fault |-> FaultOf(use_redis, client, conn, g.redis, op)]

\* the keys SCAN returns for the pattern shopify:analytics:{store_id}:* at
\* time t (store ids hold no ":" and no glob character)
ScanKeys(db, store_id, t) ==
    {k \in DOMAIN db : /\ Len(k) > 3
                       /\ SubSeq(k, 1, 3) = <<"shopify:analytics:", store_id, ":">>
                       /\ t < db[k].expiry}

\* CacheManager.invalidate_store: op is the outcome of the Redis SCAN and
\* DEL.  count is the value returned.
invalidate_store(use_redis, client, cache, db, store_id, conn, op, t) ==
    LET g == _get_redis(use_redis, client, conn)
        keys == ScanKeys(db, store_id, t)
    IN  [use_redis |-> g.use_redis, client |-> g.client,
         db |-> IF g.redis /\ op = "ok"
                THEN [k \in DOMAIN db \ keys |-> db[k]] ELSE db,
         cache |-> cache,
         count |-> IF g.redis /\ op = "ok" THEN Cardinality(keys) ELSE 0,
         fault |-> FaultOf(use_redis, client, conn, g.redis, op)]

\* ------------------------------------------------------------------------
\* ShopifyClient (shopify/client.py)
\* ------------------------------------------------------------------------
SHOPIFYQL_UNAVAILABLE_ERRORS == <<
    <<"s","h","o","p","i","f","y","q","l","Q","u","e","r","y">>,
    <<"d","o","e","s","n","'","t"," ","e","x","i","s","t"," ","o","n"," ","t","y","p","e">>,
    <<"n","o","t"," ","a","v","a","i","l","a","b","l","e">>,
    <<"n","o","t"," ","s","u","p","p","o","r","t","e","d">> >>

S_HTTP_error == <<"H","T","T","P"," ","e","r","r","o","r",":"," ">>

S_No_data == <<"N","o"," ","d","a","t","a"," ","i","n"," ","r","e","s","p","o","n","s","e">>

S_Unknown_type == <<"U","n","k","n","o","w","n"," ","r","e","s","p","o","n","s","e"," ","t","y","p","e">>

\* "; ".join(messages)
RECURSIVE JoinSemi(_)
JoinSemi(messages) ==
    IF messages = <<>> THEN <<>>
    ELSE IF Len(messages) = 1 THEN messages[1]
    ELSE messages[1] \o <<";", " ">> \o JoinSemi(Tail(messages))

IntMin(a, b) == IF a < b THEN a ELSE b

IntMax(a, b) == IF a > b THEN a ELSE b

\* rows[:n] with Python slice semantics (a negative n counts from the end)
SliceTo(rows, n) ==
    IF n >= 0 THEN SubSeq(rows, 1, IntMin(n, Len(rows)))
    ELSE SubSeq(rows, 1, IntMax(Len(rows) + n, 0))

\* _process_table_response: zip the column names with every row.  Of the
\* returned dict the rows are kept; its "columns" and "tableData" entries,
\* read only to word the prompt of the formatter, are left out.
_process_table_response(table_data) ==
    LET columns == table_data.columns
        row_data == table_data.rowData
    IN  IF columns = <<>> \/ row_data = <<>>
        THEN [data |-> <<>>]
        ELSE [data |->
                [r \in 1..Len(row_data) |->
                    LET n == IntMin(Len(row_data[r]), Len(columns))
                    IN  [c \in {columns[i] : i \in 1..n} |->
                            row_data[r][SetMax({i \in 1..n : columns[i] = c})]]]]

\* _process_viz_response: one row per point of every series
RECURSIVE _process_viz_rows(_)
_process_viz_rows(viz_data) ==
    IF viz_data = <<>> THEN <<>>
    ELSE LET series == Head(viz_data)
         IN  [i \in 1..Len(series.data) |->
                [series |-> PyStr(series.key),
                 key |-> series.data[i].key,
                 value |-> series.data[i].value]]
             \o _process_viz_rows(Tail(viz_data))

_process_viz_response(viz_data) == [data |-> _process_viz_rows(viz_data)]

\* _process_shopifyql_response: result is the decoded GraphQL payload
_process_shopifyql_response(result) ==
    CASE result.kind = "errors" ->
            [error |-> PyStr(JoinSemi(result.messages)), data |-> <<>>]
      [] result.kind = "no_data" ->
            [error |-> PyStr(S_No_data), data |-> <<>>]
      [] result.kind = "parseErrors" ->
            [error |-> PyStr(JoinSemi(result.messages)), data |-> <<>>]
      [] result.kind = "TableResponse" ->
            _process_table_response(result.tableData)
      [] result.kind = "PolarisVizResponse" ->
            _process_viz_response(result.data)
      [] OTHER ->
            [error |-> PyStr(S_Unknown_type), data |-> <<>>]

\* execute_shopifyql: outcome is what the HTTP round trip produced
execute_shopifyql(outcome) ==
    CASE outcome.kind = "HTTPStatusError" ->
            [error |-> PyStr(S_HTTP_error \o outcome.status), data |-> <<>>]
      [] outcome.kind = "Exception" ->
            [error |-> PyStr(outcome.message), data |-> <<>>]
      [] OTHER -> _process_shopifyql_response(outcome)

\* limit = entities.get("limit", default) or default
LimitOf(entities, default) ==
    LET v == GetDefault(entities, "limit", PyInt(default))
    IN  IF PyTruthy(v) THEN v[2] ELSE default

\* a variant that asks for as many objects as the limit says
GraphqlListing_uncapped(entities, default, outcome, sliced) ==
    LET limit == LimitOf(entities, default)
    IN  [first |-> limit,
         result |->
            CASE outcome.kind = "Exception" ->
                    [error |-> PyStr(outcome.message), data |-> <<>>]
              [] outcome.kind = "errors" ->
                    [error |-> PyStr(outcome.messages[1]), data |-> <<>>]
              [] OTHER ->
                    [data |-> IF sliced THEN SliceTo(outcome.rows, limit)
                                        ELSE outcome.rows]]

\* a variant that hands the API-level errors back as rows next to the error
GraphqlListing_partial(entities, default, outcome, sliced) ==
    LET limit == LimitOf(entities, default)
    IN  [first |-> IntMin(limit, 50),
         result |->
            CASE outcome.kind = "Exception" ->
                    [error |-> PyStr(outcome.message), data |-> <<>>]
              [] outcome.kind = "errors" ->
                    [error |-> PyStr(outcome.messages[1]),
                     data |-> [i \in 1..Len(outcome.messages) |->
                                    [message |-> PyStr(outcome.messages[i])]]]
              [] OTHER ->
                    [data |-> IF sliced THEN SliceTo(outcome.rows, limit)
                                        ELSE outcome.rows]]

\* One general-API listing call: [result, first], first being the page size
\* requested.  outcome is what the HTTP round trip produced; outcome.rows
\* are the rows the routine builds from the returned objects.
GraphqlListing(entities, default, outcome, sliced) ==
    LET limit == LimitOf(entities, default)
    IN  [first |-> IntMin(limit, 50),
         result |->
            CASE outcome.kind = "Exception" ->
                    [error |-> PyStr(outcome.message), data |-> <<>>]
              [] outcome.kind = "errors" ->
                    [error |-> PyStr(outcome.messages[1]), data |-> <<>>]
              [] OTHER ->
                    [data |-> IF sliced THEN SliceTo(outcome.rows, limit)
                                        ELSE outcome.rows]]

_graphql_products_query(entities, outcome) == GraphqlListing(entities, 10, outcome, FALSE)

_graphql_inventory_query(entities, outcome) == GraphqlListing(entities, 20, outcome, FALSE)

\* round(x, 2) of an amount held in thousandths of the currency unit
Round2(mills) ==
    LET r == mills % 10
    IN  IF r < 5 THEN mills - r ELSE mills - r + 10

\* the line items of the fetched orders in the order the loops of lines
\* 338-345 visit them
RECURSIVE LineItemsOf(_)
LineItemsOf(edges) ==
    IF edges = <<>> THEN <<>>
    ELSE Head(edges).lineItems \o LineItemsOf(Tail(edges))

\* product_sales after the loops (lines 345-353): one entry per title, in
\* the order the titles were first met
RECURSIVE Aggregate(_, _)
Aggregate(items, product_sales) ==
    IF items = <<>> THEN product_sales
    ELSE LET item == Head(items)
             k == {i \in 1..Len(product_sales) : product_sales[i].title = item.title}
         IN  Aggregate(Tail(items),
                IF k = {}
                THEN Append(product_sales,
                            [title |-> item.title, units_sold |-> item.quantity,
                             revenue |-> item.quantity * item.price])
                ELSE [product_sales EXCEPT ![SetMin(k)] =
                        [@ EXCEPT !.units_sold = @ + item.quantity,
                                  !.revenue = @ + item.quantity * item.price]])

\* list.sort(key=total_sales, reverse=True): stable, rows of equal
\* total_sales keep their order
RECURSIVE SortedBySales(_)
SortedBySales(rows) ==
    IF rows = <<>> THEN <<>>
    ELSE LET sorted == SortedBySales(SubSeq(rows, 1, Len(rows) - 1))
             row == rows[Len(rows)]
             n == Cardinality({i \in 1..Len(sorted) :
                                sorted[i].total_sales[2] >= row.total_sales[2]})
         IN  SubSeq(sorted, 1, n) \o <<row>> \o SubSeq(sorted, n + 1, Len(sorted))

\* the rows of lines 366-373, amounts in thousandths of the currency unit
ProductSalesRows(edges) ==
    LET product_sales == Aggregate(LineItemsOf(edges), <<>>)
    IN  [i \in 1..Len(product_sales) |->
            [product_title |-> PyStr(product_sales[i].title),
             units_sold |-> PyInt(product_sales[i].units_sold),
             total_sales |-> PyInt(Round2(product_sales[i].revenue))]]

\* a variant that leaves the rows in the order the titles were met
product_sales_list_unsorted(edges) == ProductSalesRows(edges)

\* product_sales_list of lines 365-374
product_sales_list(edges) == SortedBySales(ProductSalesRows(edges))

\* outcome.kind = "orders": the round trip returned the page outcome.edges
\* of orders with their line items; otherwise as for the other routines
_graphql_orders_query(entities, outcome) ==
    GraphqlListing(entities, 20,
                   IF outcome.kind = "orders"
                   THEN [kind |-> "ok", rows |-> product_sales_list(outcome.edges)]
                   ELSE outcome,
                   TRUE)

_graphql_customers_query(entities, outcome) == GraphqlListing(entities, 20, outcome, FALSE)

execute_graphql_fallback(intent, entities, outcome) ==
    IF intent = "inventory" THEN _graphql_inventory_query(entities, outcome)
    ELSE IF intent = "sales" \/ intent = "orders" THEN _graphql_orders_query(entities, outcome)
    ELSE IF intent = "customers" THEN _graphql_customers_query(entities, outcome)
    ELSE _graphql_products_query(entities, outcome)

\* a variant that looks for the patterns as they are spelled
is_shopifyql_unavailable_exact(error_msg) ==
    \E i \in 1..Len(SHOPIFYQL_UNAVAILABLE_ERRORS) :
        Contains(error_msg, SHOPIFYQL_UNAVAILABLE_ERRORS[i])

\* any(pattern.lower() in error_msg for pattern in SHOPIFYQL_UNAVAILABLE_ERRORS)
is_shopifyql_unavailable(error_msg) ==
    \E i \in 1..Len(SHOPIFYQL_UNAVAILABLE_ERRORS) :
        Contains(error_msg, Lower(SHOPIFYQL_UNAVAILABLE_ERRORS[i]))

X_list_get == <<"'list' object has no attribute 'get'">>

X_none_get == <<"'NoneType' object has no attribute 'get'">>

\* The entities argument as the classifier delivered it: a dict, null or a
\* non-empty list.
EntitiesDict(d) == [kind |-> "dict", d |-> d]

EntitiesNull == [kind |-> "null"]

EntitiesList == [kind |-> "list"]



\* a variant that keeps the lower-cased text it matched the patterns against
execute_query_with_fallback_lowered(shopifyql_query, intent, entities, primary, graphql_outcome) ==
    LET shopifyql_result == execute_shopifyql(primary)
    IN  IF ~PyTruthy(Get(shopifyql_result, "error"))
        THEN [raised |-> None, graphql |-> <<>>,
              result |-> Merge(shopifyql_result,
                               [source |-> PyStr(<<"shopifyql">>),
                                fallback_used |-> PyBool(FALSE)])]
        ELSE LET error_msg == Lower(Get(shopifyql_result, "error")[2])
             IN  IF is_shopifyql_unavailable(error_msg)
                 THEN IF entities.kind # "dict"
                      THEN [raised |-> Some(IF entities.kind = "list" THEN X_list_get
                                            ELSE X_none_get),
                            graphql |-> <<>>, result |-> <<>>]
                      ELSE LET e == entities.d
                               g == execute_graphql_fallback(intent, e, graphql_outcome)
                           IN  [raised |-> None, graphql |-> <<g.first>>,
                                result |-> Merge(g.result,
                                    [source |-> PyStr(<<"graphql_fallback">>),
                                     fallback_used |-> PyBool(TRUE),
                                     shopifyql_error |-> PyStr(error_msg),
                                     original_query |-> PyStr(shopifyql_query)])]
                 ELSE [raised |-> None, graphql |-> <<>>,
                       result |-> Merge(shopifyql_result,
                                        [source |-> PyStr(<<"shopifyql">>),
                                         fallback_used |-> PyBool(FALSE)])]

\* execute_query_with_fallback.  Returns
\*   raised:  None, or Some(message) of the exception that escapes
\*   result:  the returned dict (when nothing escaped)
\*   graphql: the page sizes of the general-API calls issued
execute_query_with_fallback(shopifyql_query, intent, entities, primary, graphql_outcome) ==
    LET shopifyql_result == execute_shopifyql(primary)
    IN  IF ~PyTruthy(Get(shopifyql_result, "error"))
        THEN [raised |-> None, graphql |-> <<>>,
              result |-> Merge(shopifyql_result,
                               [source |-> PyStr(<<"shopifyql">>),
                                fallback_used |-> PyBool(FALSE)])]
        ELSE LET error_msg == Lower(Get(shopifyql_result, "error")[2])
             IN  IF is_shopifyql_unavailable(error_msg)
                 THEN IF entities.kind # "dict"
                      THEN [raised |-> Some(IF entities.kind = "list" THEN X_list_get
                                            ELSE X_none_get),
                            graphql |-> <<>>, result |-> <<>>]
                      ELSE LET e == entities.d
                               g == execute_graphql_fallback(intent, e, graphql_outcome)
                           IN  [raised |-> None, graphql |-> <<g.first>>,
                                result |-> Merge(g.result,
                                    [source |-> PyStr(<<"graphql_fallback">>),
                                     fallback_used |-> PyBool(TRUE),
                                     shopifyql_error |-> Get(shopifyql_result, "error"),
                                     original_query |-> PyStr(shopifyql_query)])]
                 ELSE [raised |-> None, graphql |-> <<>>,
                       result |-> Merge(shopifyql_result,
                                        [source |-> PyStr(<<"shopifyql">>),
                                         fallback_used |-> PyBool(FALSE)])]

\* ------------------------------------------------------------------------
\* ResponseFormatter (agent/response_formatter.py)
\* ------------------------------------------------------------------------
\* f"{v}" of a Python value
Render(v) ==
    CASE v[1] = "none" -> <<"N","o","n","e">>
      [] v[1] = "bool" -> (IF v[2] THEN <<"T","r","u","e">> ELSE <<"F","a","l","s","e">>)
      [] v[1] = "int" -> IntText(v[2])
      [] v[1] = "str" -> v[2]

\* f"{n:,}" of a non-negative integer
RECURSIVE CommaText(_)
CommaText(n) ==
    IF n < 1000 THEN NatText(n)
    ELSE CommaText(n \div 1000) \o <<",">>
            \o (IF n % 1000 < 10 THEN <<"0", "0">>
                ELSE IF n % 1000 < 100 THEN <<"0">> ELSE <<>>)
            \o NatText(n % 1000)

\* int(text) succeeds: an optional sign and decimal digits
IsIntText(t) ==
    LET digits == IF t # <<>> /\ t[1] = "-" THEN Tail(t) ELSE t
    IN  digits # <<>> /\ \A i \in 1..Len(digits) : digits[i] \in Range(DigitChars)

\* int(v) / float(v) of a truthy value
NumberOf(v) ==
    CASE v[1] = "int" -> v[2]
      [] v[1] = "str" -> ParseInt(v[2])
      [] v[1] = "bool" -> 1
      [] OTHER -> 0

\* row.get(k1, 0) or row.get(k2, 0) or 0
FirstTruthyValue(row, k1, k2) ==
    IF PyTruthy(GetDefault(row, k1, PyInt(0))) THEN row[k1]
    ELSE IF PyTruthy(GetDefault(row, k2, PyInt(0))) THEN row[k2]
    ELSE PyInt(0)

FirstTruthy(row, k1, k2) == NumberOf(FirstTruthyValue(row, k1, k2))

X_invalid_int(t) == <<"invalid literal for int() with base 10: '">> \o t \o <<"'">>

X_invalid_float(t) == <<"could not convert string to float: '">> \o t \o <<"'">>

\* the rows whose number, taken by int( ) or float( ), is text that is no number
BadNumbers(data, k1, k2) ==
    LET bad(i) == LET v == FirstTruthyValue(data[i], k1, k2)
                  IN  v[1] = "str" /\ ~IsIntText(v[2])
    IN  {i \in 1..Len(data) : bad(i)}

RECURSIVE SumOver(_, _, _)
SumOver(data, k1, k2) ==
    IF data = <<>> THEN 0
    ELSE FirstTruthy(data[1], k1, k2) + SumOver(Tail(data), k1, k2)

\* sep.join(items) for texts
RECURSIVE JoinWith(_, _)
JoinWith(items, sep) ==
    IF items = <<>> THEN <<>>
    ELSE IF Len(items) = 1 THEN items[1]
    ELSE items[1] \o sep \o JoinWith(Tail(items), sep)

_format_empty_response(question, query_data) ==
    IF query_data # None /\ PyTruthy(Get(query_data[1], "error"))
    THEN [answer |-> PyStr(<<"I wasn't able to retrieve the data you requested. The issue was: ">>
                            \o Get(query_data[1], "error")[2]
                            \o <<". Please try rephrasing your question or check that the store has the relevant data.">>),
          confidence |-> PyStr(<<"low">>)]
    ELSE [answer |-> PyStr(<<"I couldn't find any data matching your question.">>),
          confidence |-> PyStr(<<"low">>)]

_format_sales_response(data) ==
    LET total_sales == SumOver(data, "total_sales", "net_sales")
        total_units == SumOver(data, "units_sold", "net_quantity")
    IN  [answer |-> PyStr(
            <<"Based on the data, your total sales were $">>
                \o CommaText(total_sales) \o <<".00">>
                \o (IF total_units > 0
                    THEN <<" with ">> \o CommaText(total_units) \o <<" units sold">>
                    ELSE <<>>)
                \o <<".">>
                \o (IF Len(data) > 1 /\ "product_title" \in DOMAIN data[1]
                    THEN <<" Your top performing product was ">>
                            \o Render(data[1]["product_title"]) \o <<".">>
                    ELSE <<>>)),
         confidence |-> PyStr(<<"medium">>)]

\* the line of one row in the inventory answer
ProductInfo(row) ==
    LET stock == FirstTruthy(row, "stock", "quantity_available")
        product == Render(GetDefault(row, "product_title", PyStr(<<"Unknown">>)))
        price == GetDefault(row, "price", PyStr(<<"N/A">>))
    IN  IF PyTruthy(price) /\ price # PyStr(<<"N/A">>)
        THEN <<"* ">> \o product \o <<": ">> \o IntText(stock) \o <<" units @ $">> \o Render(price)
        ELSE <<"* ">> \o product \o <<": ">> \o IntText(stock) \o <<" units">>

LowStockItem(row) ==
    Render(GetDefault(row, "product_title", PyStr(<<"Unknown">>)))
        \o <<" (">> \o IntText(FirstTruthy(row, "stock", "quantity_available")) \o <<" units)">>

\* a variant that also lists the rows with exactly 10 units
RECURSIVE LowStockItems_inclusive(_)
LowStockItems_inclusive(data) ==
    IF data = <<>> THEN <<>>
    ELSE (IF FirstTruthy(data[1], "stock", "quantity_available") <= 10
          THEN <<LowStockItem(data[1])>> ELSE <<>>)
            \o LowStockItems_inclusive(Tail(data))

RECURSIVE LowStockItems(_)
LowStockItems(data) ==
    IF data = <<>> THEN <<>>
    ELSE (IF FirstTruthy(data[1], "stock", "quantity_available") < 10
          THEN <<LowStockItem(data[1])>> ELSE <<>>)
            \o LowStockItems(Tail(data))

_format_inventory_response(data) ==
    LET products_info == [i \in 1..Len(data) |-> ProductInfo(data[i])]
        low_stock_items == LowStockItems(data)
    IN  [answer |-> PyStr(
            <<"Here are your ">> \o IntText(Len(data)) \o <<" products:", "\n", "\n">>
                \o JoinWith(SliceTo(products_info, 10), <<"\n">>)
                \o (IF Len(products_info) > 10
                    THEN <<"\n", "... and ">> \o IntText(Len(products_info) - 10)
                            \o <<" more products.">>
                    ELSE <<>>)
                \o (IF low_stock_items # <<>>
                    THEN <<"\n", "\n", "Low stock alert: ">>
                            \o JoinWith(SliceTo(low_stock_items, 3), <<", ">>)
                    ELSE <<>>)),
         confidence |-> PyStr(<<"medium">>)]

_format_customer_response(data) ==
    [answer |-> PyStr(<<"Found data for ">> \o IntText(Len(data))
                        \o <<" customer segments or locations.">>),
     confidence |-> PyStr(<<"medium">>)]

\* the keys of a row in the order the source inserts them
ColumnOrder == <<"product_title", "variant_title", "quantity_available", "stock",
                 "price", "units_sold", "total_sales", "net_sales", "customer_name",
                 "orders_count">>

RECURSIVE KeysInOrder(_, _)
KeysInOrder(row, order) ==
    IF order = <<>> THEN <<>>
    ELSE (IF order[1] \in DOMAIN row THEN <<<<order[1]>>>> ELSE <<>>)
            \o KeysInOrder(row, Tail(order))

_format_generic_response(data) ==
    LET columns == KeysInOrder(data[1], ColumnOrder)
    IN  [answer |-> PyStr(
            <<"Found ">> \o IntText(Len(data)) \o <<" records matching your query.">>
                \o (IF DOMAIN data[1] # {}
                    THEN <<" Data includes: ">> \o JoinWith(SliceTo(columns, 5), <<", ">>)
                            \o (IF Len(columns) > 5
                                THEN <<" and ">> \o IntText(Len(columns) - 5) \o <<" more fields.">>
                                ELSE <<>>)
                    ELSE <<>>)),
         confidence |-> PyStr(<<"medium">>)]

_generate_basic_response(question, query_data, intent) ==
    LET data == query_data["data"]
    IN  IF data = <<>> THEN _format_empty_response(question, None)
        ELSE IF intent = "sales" THEN _format_sales_response(data)
        ELSE IF intent = "inventory" THEN _format_inventory_response(data)
        ELSE IF intent = "customers" THEN _format_customer_response(data)
        ELSE _format_generic_response(data)

\* The ValueError that escapes _generate_basic_response, or None: float( )
\* in _format_sales_response (line 199), int( ) there (line 200) and in
\* _format_inventory_response (line 227) applied to text that is no number.
BasicResponseError(query_data, intent) ==
    LET data == query_data["data"]
        first(k1, k2) == FirstTruthyValue(data[SetMin(BadNumbers(data, k1, k2))], k1, k2)[2]
    IN  IF data = <<>> THEN None
        ELSE IF intent = "sales"
             THEN IF BadNumbers(data, "total_sales", "net_sales") # {}
                  THEN Some(X_invalid_float(first("total_sales", "net_sales")))
                  ELSE IF BadNumbers(data, "units_sold", "net_quantity") # {}
                       THEN Some(X_invalid_int(first("units_sold", "net_quantity")))
                       ELSE None
        ELSE IF intent = "inventory"
             THEN IF BadNumbers(data, "stock", "quantity_available") # {}
                  THEN Some(X_invalid_int(first("stock", "quantity_available")))
                  ELSE None
        ELSE None

\* _parse_response of the formatter and the use format makes of its result
\* (lines 81-89); llm is what the collaborator returned:
\*   "json"      a JSON object, with or without an "answer"
\*   "json_str"  a JSON document that is no object (a string, a list, a number)
\*   "text"      text that is not JSON
\* None stands for the exception a non-object raises (at line 137, 138 or
\* 86), which format catches as it catches a failure of the collaborator.
FormatterParse(llm) ==
    CASE llm.kind = "json" ->
            Some(IF "answer" \in DOMAIN llm.d THEN llm.d
                 ELSE Merge(llm.d, [answer |-> PyStr(llm.text)]))
      [] llm.kind = "json_str" -> None
      [] llm.kind = "raise" -> None
      [] OTHER ->
            Some([answer |-> PyStr(llm.text), confidence |-> PyStr(<<"medium">>)])

\* a variant that takes the deterministic branch for an empty result only
format_error_to_llm(question, intent, query_data, llm) ==
    IF query_data = <<>>
    THEN [llm_called |-> FALSE, raised |-> None,
          result |-> _format_empty_response(question, Some(query_data))]
    ELSE IF FormatterParse(llm) # None
         THEN [llm_called |-> TRUE, raised |-> None, result |-> FormatterParse(llm)[1]]
         ELSE [llm_called |-> TRUE, raised |-> None,
               result |-> _generate_basic_response(question, query_data, intent)]

\* ResponseFormatter.format: [llm_called, raised, result]
format(question, intent, query_data, llm) ==
    IF query_data = <<>> \/ PyTruthy(Get(query_data, "error"))
    THEN [llm_called |-> FALSE, raised |-> None,
          result |-> _format_empty_response(question, Some(query_data))]
    ELSE IF FormatterParse(llm) # None
         THEN [llm_called |-> TRUE, raised |-> None, result |-> FormatterParse(llm)[1]]
         ELSE IF BasicResponseError(query_data, intent) # None
              THEN [llm_called |-> TRUE, raised |-> BasicResponseError(query_data, intent),
                    result |-> <<>>]
              ELSE [llm_called |-> TRUE, raised |-> None,
                    result |-> _generate_basic_response(question, query_data, intent)]

\* ------------------------------------------------------------------------
\* IntentClassifier (agent/intent_classifier.py)
\* ------------------------------------------------------------------------
valid_intents == {"inventory", "sales", "customers", "orders"}

InventoryWords == <<
    <<"s","t","o","c","k">>,
    <<"i","n","v","e","n","t","o","r","y">>,
    <<"r","e","o","r","d","e","r">>,
    <<"o","u","t"," ","o","f"," ","s","t","o","c","k">>,
    <<"p","r","o","d","u","c","t">>,
    <<"p","r","o","d","u","c","t","s">>,
    <<"c","a","t","a","l","o","g">>,
    <<"l","i","s","t">> >>

CustomerWords == <<
    <<"c","u","s","t","o","m","e","r">>,
    <<"r","e","p","e","a","t">>,
    <<"b","u","y","e","r">>,
    <<"p","u","r","c","h","a","s","e","d">> >>

OrderWords == <<
    <<"o","r","d","e","r">>,
    <<"f","u","l","f","i","l","l","m","e","n","t">>,
    <<"s","h","i","p","p","i","n","g">>,
    <<"r","e","t","u","r","n">> >>

\* any(word in text for word in words)
AnyWordIn(words, text) == \E i \in 1..Len(words) : Contains(text, words[i])

_default_classification(question) ==
    LET question_lower == Lower(question)
        intent == IF AnyWordIn(InventoryWords, question_lower) THEN "inventory"
                  ELSE IF AnyWordIn(CustomerWords, question_lower) THEN "customers"
                  ELSE IF AnyWordIn(OrderWords, question_lower) THEN "orders"
                  ELSE "sales"
    IN  [intent |-> intent,
         entities |-> EntitiesDict([time_period |-> PyNone, product_name |-> PyNone,
                                    metric |-> PyNone, limit |-> PyNone])]

\* a variant that keeps the intent the collaborator named
ClassifierParse_any(llm) ==
    LET intent == IF llm.intent = None THEN "sales" ELSE llm.intent[1]
        entities == IF llm.entities = None THEN EntitiesDict(<<>>) ELSE llm.entities[1]
    IN  [intent |-> intent, entities |-> entities]

\* _parse_response of the classifier on a decoded JSON object; llm.intent is
\* None when the object has no "intent", llm.entities when it has no "entities"
ClassifierParse(llm) ==
    LET intent == IF llm.intent = None THEN "sales" ELSE llm.intent[1]
        entities == IF llm.entities = None THEN EntitiesDict(<<>>) ELSE llm.entities[1]
    IN  [intent |-> IF intent \notin valid_intents THEN "sales" ELSE intent,
         entities |-> entities]

X_none_subscript == <<"'NoneType' object is not subscriptable">>

\* the turns whose answer the context builder slices: conversation_history[-3:]
LastTurns(history, n) == SubSeq(history, IntMax(1, Len(history) - n + 1), Len(history))

\* IntentClassifier.classify; llm is what the collaborator did:
\*   "raise"  it raised (caught at line 102)
\*   "value"  its JSON was a list, a string, a number, a boolean or null:
\*            line 122 or 123 raises TypeError, caught at line 102
\*   "text"   its text was not JSON (caught at line 135)
\*   "json"   a JSON object
\* Returns raised (None or Some(message)) and the classification.
classify(question, conversation_history, llm) ==
    IF \E i \in DOMAIN LastTurns(conversation_history, 3) :
            LastTurns(conversation_history, 3)[i].answer = PyNone
    THEN [raised |-> Some(X_none_subscript), result |-> <<>>]
    ELSE [raised |-> None,
          result |-> CASE llm.kind = "raise" -> _default_classification(question)
                       [] llm.kind = "value" -> _default_classification(question)
                       [] llm.kind = "text" -> _default_classification(<<>>)
                       [] OTHER -> ClassifierParse(llm)]

\* ------------------------------------------------------------------------
\* QueryGenerator (agent/query_generator.py)
\* ------------------------------------------------------------------------
S_LIMIT == <<"L","I","M","I","T">>

T_7d == <<"S","I","N","C","E"," ","-","7","d"," ","U","N","T","I","L"," ","t","o","d","a","y">>

T_30d == <<"S","I","N","C","E"," ","-","3","0","d"," ","U","N","T","I","L"," ","t","o","d","a","y">>

T_90d == <<"S","I","N","C","E"," ","-","9","0","d"," ","U","N","T","I","L"," ","t","o","d","a","y">>

T_1y == <<"S","I","N","C","E"," ","-","1","y"," ","U","N","T","I","L"," ","t","o","d","a","y">>

T_today == <<"S","I","N","C","E"," ","t","o","d","a","y"," ","U","N","T","I","L"," ","t","o","d","a","y">>

T_yesterday == <<"S","I","N","C","E"," ","-","1","d"," ","U","N","T","I","L"," ","-","1","d">>

S_last_7_days == <<"l","a","s","t"," ","7"," ","d","a","y","s">>

\* _parse_time_period on the value of entities["time_period"]
_parse_time_period(time_period) ==
    IF ~PyTruthy(time_period) THEN T_7d
    ELSE LET t == Lower(time_period[2])
         IN  IF Contains(t, <<"3","0"," ","d","a","y">>) \/ Contains(t, <<"m","o","n","t","h">>) THEN T_30d
             ELSE IF Contains(t, <<"9","0"," ","d","a","y">>) \/ Contains(t, <<"3"," ","m","o","n","t","h">>) THEN T_90d
             ELSE IF Contains(t, <<"y","e","a","r">>) \/ Contains(t, <<"3","6","5">>) THEN T_1y
             ELSE IF Contains(t, <<"w","e","e","k">>) \/ Contains(t, <<"7"," ","d","a","y">>) THEN T_7d
             ELSE IF Contains(t, <<"t","o","d","a","y">>) THEN T_today
             ELSE IF Contains(t, <<"y","e","s","t","e","r","d","a","y">>) THEN T_yesterday
             ELSE T_7d

FallbackSales(time_clause, limit) ==
    <<"F","R","O","M"," ","s","a","l","e","s","\n"," ","S","H","O","W"," ","p","r","o","d","u","c","t","_","t","i","t","l","e",","," ","s","u","m","(","n","e","t","_","s","a","l","e","s",")"," ","A","S"," ","t","o","t","a","l","_","s","a","l","e","s",","," ","s","u","m","(","n","e","t","_","q","u","a","n","t","i","t","y",")"," ","A","S"," ","u","n","i","t","s","_","s","o","l","d","\n"," ">>
        \o time_clause
        \o <<"\n"," ","G","R","O","U","P"," ","B","Y"," ","p","r","o","d","u","c","t","_","t","i","t","l","e","\n"," ","O","R","D","E","R"," ","B","Y"," ","t","o","t","a","l","_","s","a","l","e","s"," ","D","E","S","C","\n"," ","L","I","M","I","T"," ">>
        \o Render(limit) \o <<"\n">>

FallbackInventory ==
    <<"F","R","O","M"," ","i","n","v","e","n","t","o","r","y","\n"," ","S","H","O","W"," ","p","r","o","d","u","c","t","_","t","i","t","l","e",","," ","s","u","m","(","q","u","a","n","t","i","t","y","_","a","v","a","i","l","a","b","l","e",")"," ","A","S"," ","s","t","o","c","k","\n"," ","G","R","O","U","P"," ","B","Y"," ","p","r","o","d","u","c","t","_","t","i","t","l","e","\n"," ","O","R","D","E","R"," ","B","Y"," ","s","t","o","c","k"," ","A","S","C","\n"," ","L","I","M","I","T"," ","1","0","\n">>

FallbackCustomers(time_clause, limit) ==
    <<"F","R","O","M"," ","s","a","l","e","s","\n"," ","S","H","O","W"," ","b","i","l","l","i","n","g","_","c","i","t","y",","," ","c","o","u","n","t","(","o","r","d","e","r","_","i","d",")"," ","A","S"," ","o","r","d","e","r","_","c","o","u","n","t","\n"," ">>
        \o time_clause
        \o <<"\n"," ","G","R","O","U","P"," ","B","Y"," ","b","i","l","l","i","n","g","_","c","i","t","y","\n"," ","O","R","D","E","R"," ","B","Y"," ","o","r","d","e","r","_","c","o","u","n","t"," ","D","E","S","C","\n"," ","L","I","M","I","T"," ">>
        \o Render(limit) \o <<"\n">>

FallbackOrders(time_clause) ==
    <<"F","R","O","M"," ","s","a","l","e","s","\n"," ","S","H","O","W"," ","d","a","y",","," ","c","o","u","n","t","(","o","r","d","e","r","_","i","d",")"," ","A","S"," ","o","r","d","e","r","s",","," ","s","u","m","(","n","e","t","_","s","a","l","e","s",")"," ","A","S"," ","r","e","v","e","n","u","e","\n"," ">>
        \o time_clause
        \o <<"\n"," ","G","R","O","U","P"," ","B","Y"," ","d","a","y","\n"," ","O","R","D","E","R"," ","B","Y"," ","d","a","y"," ","D","E","S","C","\n">>

\* _generate_fallback_query on a dict of entities
_generate_fallback_query(intent, entities) ==
    LET time_period == GetDefault(entities, "time_period", PyStr(S_last_7_days))
        limit == GetDefault(entities, "limit", PyInt(10))
        time_clause == _parse_time_period(time_period)
        query == CASE intent = "sales" -> FallbackSales(time_clause, limit)
                   [] intent = "inventory" -> FallbackInventory
                   [] intent = "customers" -> FallbackCustomers(time_clause, limit)
                   [] intent = "orders" -> FallbackOrders(time_clause)
                   [] OTHER -> FallbackSales(time_clause, limit)
    IN  [query |-> JoinSpace(Split(query))]

\* response.split("\n")
RECURSIVE SplitLines(_)
SplitLines(s) ==
    LET nl == {i \in 1..Len(s) : s[i] = "\n"}
    IN  IF nl = {} THEN <<s>>
        ELSE <<SubSeq(s, 1, SetMin(nl) - 1)>> \o SplitLines(SubSeq(s, SetMin(nl) + 1, Len(s)))

\* the line loop of _parse_response: collect from the first line holding FROM
\* up to and including the first line that holds LIMIT or is blank
RECURSIVE QueryLines(_, _)
QueryLines(lines, in_query) ==
    IF lines = <<>> THEN <<>>
    ELSE LET line == lines[1]
             inq == in_query \/ Contains(line, S_FROM)
         IN  IF ~inq THEN QueryLines(Tail(lines), FALSE)
             ELSE IF Contains(line, S_LIMIT) \/ Strip(line) = <<>>
                  THEN <<line>>
                  ELSE <<line>> \o QueryLines(Tail(lines), TRUE)

\* _parse_response of the generator; llm is what the collaborator returned:
\*   "json"  a JSON object with a "query"
\*   "text"  text that is not JSON, or a JSON object without "query"
GeneratorParse(llm) ==
    IF llm.kind = "json" THEN [query |-> llm.query]
    ELSE IF Contains(llm.text, S_FROM)
         THEN [query |-> Strip(JoinSpace(QueryLines(SplitLines(Strip(llm.text)), FALSE)))]
         ELSE [query |-> <<>>]

\* QueryGenerator.generate: raised (None or Some(message)) and the result
generate(question, intent, entities, llm) ==
    IF llm.kind = "raise"
    THEN IF entities.kind = "dict"
         THEN [raised |-> None, result |-> _generate_fallback_query(intent, entities.d)]
         ELSE [raised |-> Some(IF entities.kind = "list" THEN X_list_get ELSE X_none_get),
               result |-> <<>>]
    ELSE [raised |-> None, result |-> GeneratorParse(llm)]

\* QueryGenerator.regenerate_with_errors
regenerate_with_errors(original_query, errors, question, intent, llm) ==
    IF llm.kind = "raise" THEN [query |-> original_query]
    ELSE GeneratorParse(llm)

\* ------------------------------------------------------------------------
\* ConversationStore (memory/conversation_store.py)
\* ------------------------------------------------------------------------
MAX_TURNS == 10

CONVERSATION_TTL_HOURS == 1

CleanupEvery == 100

\* Conversation.is_expired at time t
is_expired(conversation, t) ==
    t > conversation.last_activity + CONVERSATION_TTL_HOURS * 3600

\* a variant that keeps the oldest turns on overflow
Conversation_add_turn_oldest(conversation, turn, t) ==
    LET turns == Append(conversation.turns, turn)
    IN  [turns |-> IF Len(turns) > MAX_TURNS
                   THEN SubSeq(turns, 1, MAX_TURNS)
                   ELSE turns,
         last_activity |-> t]

\* Conversation.add_turn at time t
Conversation_add_turn(conversation, turn, t) ==
    LET turns == Append(conversation.turns, turn)
    IN  [turns |-> IF Len(turns) > MAX_TURNS
                   THEN SubSeq(turns, Len(turns) - MAX_TURNS + 1, Len(turns))
                   ELSE turns,
         last_activity |-> t]

\* ConversationStore._maybe_cleanup: [conversations, counter] afterwards
\* a variant of the sweep that empties the store
_maybe_cleanup_all(conversations, counter, t) ==
    IF counter + 1 < CleanupEvery
    THEN [conversations |-> conversations, counter |-> counter + 1]
    ELSE [conversations |-> <<>>, counter |-> 0]

_maybe_cleanup(conversations, counter, t) ==
    IF counter + 1 < CleanupEvery
    THEN [conversations |-> conversations, counter |-> counter + 1]
    ELSE [conversations |->
            [c \in {c \in DOMAIN conversations : ~is_expired(conversations[c], t)} |->
                conversations[c]],
          counter |-> 0]

\* a variant that answers an expired conversation with no turns and leaves
\* it in the store
get_history_keep(conversations, counter, conversation_id, t) ==
    LET swept == _maybe_cleanup(conversations, counter, t)
        convs == swept.conversations
    IN  IF conversation_id \notin DOMAIN convs
        THEN [history |-> <<>>, conversations |-> convs, counter |-> swept.counter]
        ELSE IF is_expired(convs[conversation_id], t)
             THEN [history |-> <<>>, conversations |-> convs, counter |-> swept.counter]
             ELSE [history |-> convs[conversation_id].turns,
                   conversations |-> convs, counter |-> swept.counter]

\* ConversationStore.get_history: [history, conversations, counter]
get_history(conversations, counter, conversation_id, t) ==
    LET swept == _maybe_cleanup(conversations, counter, t)
        convs == swept.conversations
    IN  IF conversation_id \notin DOMAIN convs
        THEN [history |-> <<>>, conversations |-> convs, counter |-> swept.counter]
        ELSE IF is_expired(convs[conversation_id], t)
             THEN [history |-> <<>>,
                   conversations |-> [c \in DOMAIN convs \ {conversation_id} |-> convs[c]],
                   counter |-> swept.counter]
             ELSE [history |-> convs[conversation_id].turns,
                   conversations |-> convs, counter |-> swept.counter]

\* a variant that starts the conversation anew at every turn
add_turn_fresh(conversations, conversation_id, question, answer, query, intent, t) ==
    LET conversation == [turns |-> <<>>, last_activity |-> t]
        turn == [question |-> question, answer |-> answer, query |-> query,
                 intent |-> intent, timestamp |-> t]
    IN  (conversation_id :> Conversation_add_turn(conversation, turn, t)) @@ conversations

\* a variant that records the turn twice
add_turn_twice(conversations, conversation_id, question, answer, query, intent, t) ==
    LET conversation == IF conversation_id \in DOMAIN conversations
                        THEN conversations[conversation_id]
                        ELSE [turns |-> <<>>, last_activity |-> t]
        turn == [question |-> question, answer |-> answer, query |-> query,
                 intent |-> intent, timestamp |-> t]
    IN  (conversation_id :>
            Conversation_add_turn(Conversation_add_turn(conversation, turn, t), turn, t))
        @@ conversations

\* ConversationStore.add_turn: the conversations afterwards
add_turn(conversations, conversation_id, question, answer, query, intent, t) ==
    LET conversation == IF conversation_id \in DOMAIN conversations
                        THEN conversations[conversation_id]
                        ELSE [turns |-> <<>>, last_activity |-> t]
        turn == [question |-> question, answer |-> answer, query |-> query,
                 intent |-> intent, timestamp |-> t]
    IN  (conversation_id :> Conversation_add_turn(conversation, turn, t)) @@ conversations

\* ConversationStore.get_conversation: None, or the details of the
\* conversation
get_conversation(conversations, conversation_id, t) ==
    IF conversation_id \notin DOMAIN conversations
    THEN None
    ELSE IF is_expired(conversations[conversation_id], t)
         THEN None
         ELSE Some([conversation_id |-> conversation_id,
                    turn_count |-> Len(conversations[conversation_id].turns),
                    last_activity |-> conversations[conversation_id].last_activity,
                    turns |-> conversations[conversation_id].turns])

\* ConversationStore.delete_conversation: [deleted, conversations]
delete_conversation(conversations, conversation_id) ==
    IF conversation_id \in DOMAIN conversations
    THEN [deleted |-> TRUE,
          conversations |-> [c \in DOMAIN conversations \ {conversation_id} |->
                                conversations[c]]]
    ELSE [deleted |-> FALSE, conversations |-> conversations]

RECURSIVE TotalTurns(_, _)
TotalTurns(conversations, ids) ==
    IF ids = {} THEN 0
    ELSE LET c == CHOOSE c \in ids : TRUE
         IN  Len(conversations[c].turns) + TotalTurns(conversations, ids \ {c})

\* ConversationStore.get_stats
get_stats(conversations, t) ==
    [active_conversations |->
        Cardinality({c \in DOMAIN conversations : ~is_expired(conversations[c], t)}),
     total_conversations |-> Cardinality(DOMAIN conversations),
     total_turns |-> TotalTurns(conversations, DOMAIN conversations)]

\* ------------------------------------------------------------------------
\* Bounds and the inputs the environment draws from
\* ------------------------------------------------------------------------
MaxReqs == 2

MaxTime == 300

ClockStep == 150

StoreIds == {"shop-a.myshopify.com", "shop-b.myshopify.com"}

Q_stock == <<"s","t","o","c","k">>

Q_top == <<"t","o","p">>

Questions == {Q_stock, Q_top}

\* the caller's conversation_id: absent, or an id it got earlier
ConversationIds == {None, Some("conv-1")}

\* str(uuid.uuid4()) of the request
Uuid4(r) == IF r = 1 THEN "uuid-1" ELSE IF r = 2 THEN "uuid-2" ELSE "uuid-n"

SQ_ok == <<"F","R","O","M"," ","s","a","l","e","s"," ","S","H","O","W"," ","x">>

SQ_noise == <<"f","r","o","m"," ","s","a","l","e","s"," "," ","s","h","o","w"," ","x">>

SQ_noshow == <<"F","R","O","M"," ","s","a","l","e","s">>

EN_hat == <<"H","a","t">>

EN_cap == <<"C","a","p">>

EN_na == <<"n","/","a">>

ER_unsupported == <<"S","h","o","p","i","f","y","Q","L"," ","i","s"," ","N","o","t"," ","S","u","p","p","o","r","t","e","d">>

ER_field == <<"F","i","e","l","d"," ","'","s","h","o","p","i","f","y","q","l","Q","u","e","r","y","'"," ","d","o","e","s","n","'","t"," ","e","x","i","s","t"," ","o","n"," ","t","y","p","e"," ","'","M","u","t","a","t","i","o","n","'">>

ER_mutation == <<"n","o"," ","S","h","o","p","i","f","y","Q","L","Q","u","e","r","y">>

ER_unavailable == <<"S","e","r","v","i","c","e"," ","N","o","t"," ","A","v","a","i","l","a","b","l","e">>

ER_syntax == <<"S","y","n","t","a","x"," ","e","r","r","o","r"," ","n","e","a","r"," ","S","H","O","W">>

ER_timeout == <<"t","i","m","e","d"," ","o","u","t">>

ER_500 == <<"5","0","0">>

\* what the text-generation collaborator does for the classifier
LLM_raise == [kind |-> "raise"]

C_json(intent, entities) == [kind |-> "json", intent |-> Some(intent), entities |-> Some(entities)]

Limit1 == EntitiesDict([limit |-> PyInt(1), time_period |-> PyNone])

ClassifierLLM ==
    { LLM_raise, C_json("inventory", Limit1), C_json("refunds", EntitiesList) }

\* what it does for the generator and for the repair
G_json(query) == [kind |-> "json", query |-> query]

GeneratorLLM == { LLM_raise, G_json(SQ_ok), G_json(SQ_noise), G_json(SQ_noshow) }

\* what it does for the formatter
F_json(d) == [kind |-> "json", d |-> d]

F_answer == F_json([answer |-> PyStr(<<"You have 2 products.">>), confidence |-> PyStr(<<"high">>)])

F_null == F_json([answer |-> PyNone])

F_str == [kind |-> "json_str"]

FormatterLLM == { LLM_raise, F_answer, F_null, F_str }

\* what the ShopifyQL round trip does
P_table(stock) ==
    [kind |-> "TableResponse",
     tableData |-> [columns |-> <<"product_title", "stock">>,
                    rowData |-> << <<PyStr(EN_hat), stock>> >>]]

P_exception(message) == [kind |-> "Exception", message |-> message]

P_status(status) == [kind |-> "HTTPStatusError", status |-> status]

P_errors(messages) == [kind |-> "errors", messages |-> messages]

\* a payload without data.shopifyqlQuery
P_no_data == [kind |-> "no_data"]

P_parseErrors(messages) == [kind |-> "parseErrors", messages |-> messages]

\* a payload of a __typename the client does not know
P_unknown == [kind |-> "StringResponse"]

P_viz ==
    [kind |-> "PolarisVizResponse",
     data |-> << [key |-> <<"s","a","l","e","s">>,
                  data |-> << [key |-> PyStr(EN_hat), value |-> PyInt(3)],
                              [key |-> PyStr(EN_cap), value |-> PyInt(1)] >>] >>]

PrimaryOutcomes ==
    { P_table(PyInt(3)), P_table(PyStr(EN_na)), P_exception(<<>>), P_status(ER_500),
      P_errors(<<ER_unsupported>>) }

\* what the general-API round trip of a fallback routine does
Gq_ok ==
    [kind |-> "ok",
     rows |-> << [product_title |-> PyStr(EN_hat), quantity_available |-> PyInt(12)],
                 [product_title |-> PyStr(EN_cap), quantity_available |-> PyInt(4)] >>]

Gq_exception == [kind |-> "Exception", message |-> ER_timeout]

GraphqlOutcomes == { Gq_ok, Gq_exception }

\* The query parameter of the validate-query endpoint: a FROM part, a SHOW
\* part and a time part, in either order of the first two, with or without
\* leading white space.
QueryFromParts ==
    { <<"F","R","O","M"," ","s","a","l","e","s">>,
      <<"f","r","o","m"," "," ","P","r","o","d","u","c","t","s">>,
      <<"F","R","O","M"," ","o","r","d","e","r","s">>,
      <<"F","R","O","M">>,
      <<>>,
      <<"F","R","O","M"," ","(","s","a","l","e","s",")">> }

QueryShowParts ==
    { <<"S","H","O","W"," ","t","o","t","a","l","_","s","a","l","e","s">>,
      <<"s","h","o","w"," ","s","u","m","(","n","e","t","_","s","a","l","e","s",")">>,
      <<>>,
      <<"S","H","O","W"," ","s","u","m","(","n","e","t","_","s","a","l","e","s">>,
      <<"S","H","O","W"," ",")","q","t","y","(">> }

QueryTimeParts ==
    { <<>>,
      <<" ","S","I","N","C","E"," ","-","7","d">>,
      <<" ","S","I","N","C","E"," ","s","o","m","e","d","a","y">>,
      <<" ","U","N","T","I","L"," ","t","o","d","a","y">>,
      <<" ","S","I","N","C","E"," ","-","7","d"," ","U","N","T","I","L"," ","t","o","d","a","y">>,
      <<" ","U","N","T","I","L"," ","t","o","d","a","y"," ","S","I","N","C","E"," ","-","7","d">> }

QueryPrefixes == { <<>>, <<" ", "\t">> }

ValidateQueries ==
    { p \o a \o <<" ">> \o b \o t :
        p \in QueryPrefixes, a \in QueryFromParts, b \in QueryShowParts, t \in QueryTimeParts }
    \cup
    { p \o b \o <<" ">> \o a \o t :
        p \in QueryPrefixes, a \in QueryFromParts, b \in QueryShowParts, t \in QueryTimeParts }

\* Final queries handed to generate_key: one query in several spellings of
\* white space and letter case, its normal form, and queries that differ
\* from it in a letter or in where a word ends
KeyQueries ==
    { <<"F","R","O","M"," ","s","a","l","e","s"," ","S","H","O","W"," ","x">>,
      <<"f","r","o","m"," ","s","a","l","e","s"," ","s","h","o","w"," ","x">>,
      <<"f","r","o","m"," "," ","s","a","l","e","s","\t","s","h","o","w"," "," ","x">>,
      <<" ","F","R","O","M"," ","s","a","l","e","s"," ","S","H","O","W"," ","X","\n">>,
      <<"F","r","o","m"," ","S","a","l","e","s","\n"," "," ","S","h","o","w"," ","x">>,
      <<"F","R","O","M"," ","s","a","l","e","s"," ","S","H","O","W"," ","y">>,
      <<"F","R","O","M","s","a","l","e","s"," ","S","H","O","W"," ","x">>,
      <<"f","r","o","m"," ","s","a","l","e","s"," ","s","h","o"," ","w"," ","x">> }

Input(store_id, question, conversation_id) ==
    [store_id |-> store_id, question |-> question, conversation_id |-> conversation_id]

\* One invocation, every outcome of its collaborators
Env ==
    [reqs |-> 1..1,
     horizon |-> ClockStep,
     inputs |-> {Input(s, q, c) : s \in StoreIds, q \in Questions, c \in ConversationIds},
     classifier |-> ClassifierLLM,
     generator |-> GeneratorLLM,
     formatter |-> FormatterLLM,
     primary |-> PrimaryOutcomes,
     graphql |-> GraphqlOutcomes,
     use_redis |-> BOOLEAN,
     conn |-> {"ok", "fail"},
     op |-> {"ok", "fault"}]

\* Invocations one after the other on the shared cache
EnvSeq ==
    [reqs |-> 1..MaxReqs,
     horizon |-> MaxTime,
     inputs |-> { Input(s, Q_stock, None) : s \in StoreIds },
     classifier |-> { LLM_raise },
     generator |-> { G_json(SQ_ok), G_json(SQ_noise), G_json(SQ_noshow) },
     formatter |-> { LLM_raise },
     primary |-> { P_table(PyInt(3)), P_status(ER_500) },
     graphql |-> { Gq_ok },
     use_redis |-> BOOLEAN,
     conn |-> {"ok", "fail"},
     op |-> {"ok", "fault"}]

\* Invocations one after the other in one conversation
EnvConv ==
    [reqs |-> 1..MaxReqs,
     horizon |-> ClockStep,
     inputs |-> { Input("shop-a.myshopify.com", Q_stock, c) : c \in ConversationIds },
     classifier |-> { LLM_raise, C_json("refunds", EntitiesList) },
     generator |-> { LLM_raise, G_json(SQ_ok), G_json(SQ_noshow) },
     formatter |-> { LLM_raise, F_answer, F_null },
     primary |-> { P_table(PyStr(EN_na)), P_errors(<<ER_unsupported>>) },
     graphql |-> { Gq_ok },
     use_redis |-> {FALSE},
     conn |-> {"ok"},
     op |-> {"ok"}]

\* One invocation, every kind of answer of the two Shopify transports
EnvExec ==
    [reqs |-> 1..1,
     horizon |-> ClockStep,
     inputs |-> { Input("shop-a.myshopify.com", Q_top, None) },
     classifier |-> { C_json(i, e) : i \in valid_intents \cup {"refunds"},
                                     e \in {Limit1, EntitiesNull, EntitiesList} },
     generator |-> { G_json(SQ_ok), G_json(SQ_noshow) },
     formatter |-> { LLM_raise },
     primary |-> { P_table(PyInt(3)), P_exception(<<>>), P_exception(ER_timeout),
                   P_status(ER_500), P_errors(<<ER_syntax>>), P_errors(<<ER_unsupported>>),
                   P_errors(<<ER_field>>), P_errors(<<ER_mutation>>),
                   P_errors(<<ER_syntax, ER_unavailable>>), P_no_data,
                   P_parseErrors(<<ER_syntax>>), P_unknown, P_viz },
     graphql |-> { Gq_ok, Gq_exception, [kind |-> "errors", messages |-> <<ER_syntax>>] },
     use_redis |-> {FALSE},
     conn |-> {"ok"},
     op |-> {"ok"}]

\* One invocation with the text-generation collaborator down at any of its
\* three stages and answering well-formed JSON otherwise, any classification
\* result, rows with numbers and rows with text
EnvDown ==
    [reqs |-> 1..1,
     horizon |-> ClockStep,
     inputs |-> { Input("shop-a.myshopify.com", q, None) : q \in Questions },
     classifier |-> { LLM_raise } \cup
                    { C_json(i, e) : i \in {"inventory", "sales"},
                                     e \in {Limit1, EntitiesNull, EntitiesList} },
     generator |-> { LLM_raise, G_json(SQ_ok), G_json(SQ_noshow) },
     formatter |-> { LLM_raise, F_answer },
     primary |-> { P_table(PyInt(3)), P_table(PyStr(EN_na)) },
     graphql |-> { Gq_ok },
     use_redis |-> {FALSE},
     conn |-> {"ok"},
     op |-> {"ok"}]

\* Two invocations for one store and one question, in flight together; the
\* shop's answer moves between the two round trips
EnvRace ==
    [reqs |-> 1..2,
     horizon |-> ClockStep,
     inputs |-> { Input("shop-a.myshopify.com", Q_stock, None) },
     classifier |-> { LLM_raise },
     generator |-> { G_json(SQ_ok), G_json(SQ_noise), G_json(SQ_noshow) },
     formatter |-> { LLM_raise },
     primary |-> { P_table(PyInt(3)), P_table(PyInt(4)) },
     graphql |-> { Gq_ok },
     use_redis |-> BOOLEAN,
     conn |-> {"ok"},
     op |-> {"ok"}]

\* what the collaborator may hand the classifier: JSON that is not an
\* object, and an object with neither intent nor entities
LLM_value == [kind |-> "value"]

C_bare == [kind |-> "json", intent |-> None, entities |-> None]

Q_buyers == <<"r","e","p","e","a","t"," ","b","u","y","e","r","s">>

Q_returns == <<"R","e","t","u","r","n","s">>

\* One invocation per kind of question, the classifier's collaborator doing
\* every kind of thing, the ShopifyQL capability present or absent
EnvIntent ==
    [reqs |-> 1..1,
     horizon |-> ClockStep,
     inputs |-> { Input("shop-a.myshopify.com", q, None) :
                    q \in {Q_stock, Q_top, Q_buyers, Q_returns} },
     classifier |-> { LLM_raise, LLM_value, [kind |-> "text"], C_bare,
                      C_json("refunds", EntitiesList),
                      C_json("customers", Limit1) },
     generator |-> { LLM_raise, G_json(SQ_ok), G_json(SQ_noshow) },
     formatter |-> { LLM_raise },
     primary |-> { P_table(PyInt(3)), P_errors(<<ER_unsupported>>) },
     graphql |-> { Gq_ok },
     use_redis |-> {FALSE},
     conn |-> {"ok"},
     op |-> {"ok"}]

\* ------------------------------------------------------------------------
\* State
\* ------------------------------------------------------------------------
VARIABLES
    now,                \* the wall clock, in seconds
    req,                \* the process_question invocations: locals and position
    _use_redis,         \* CacheManager._use_redis
    _redis_client,      \* CacheManager._redis_client
    _cache,             \* InMemoryCache._cache
    redis_db,           \* the entries held by the Redis server
    _conversations,     \* ConversationStore._conversations
    _cleanup_counter    \* ConversationStore._cleanup_counter

vars == <<now, req, _use_redis, _redis_client, _cache, redis_db,
          _conversations, _cleanup_counter>>

cacheVars == <<_use_redis, _redis_client, _cache, redis_db>>

convVars == <<_conversations, _cleanup_counter>>

\* a process_question invocation that has not been made yet
Idle ==
    [pc |-> "idle", store_id |-> "", question |-> <<>>, conversation_id |-> None,
     conv_id |-> "", history |-> <<>>, intent_result |-> <<>>,
     shopifyql_query |-> <<>>, validation_errors |-> <<>>, cache_key |-> <<>>,
     query_data |-> <<>>, response |-> <<>>,
     \* the history of the invocation, read by the properties only:
     calls |-> <<>>,            \* the stages called, in order
     checks |-> <<>>,           \* the validate calls: query, valid, errors
     raised |-> None,           \* the message of the exception caught at line 192
     lookup |-> None,           \* the cache lookup: its time, whether an entry came back
     faulted |-> FALSE,         \* a cache backend round trip failed
     primary_error |-> None,    \* the error of the ShopifyQL attempt
     engine |-> None,           \* what execute_query_with_fallback returned
     graphql |-> <<>>,          \* the general-API calls issued
     llm_format |-> FALSE,      \* the formatter called the collaborator
     cache_ops |-> <<>>]        \* the cache calls: what they met and returned

Finished(r) == req[r].pc \in {"Done", "Errored"}

\* ------------------------------------------------------------------------
\* AgentOrchestrator (agent/orchestrator.py)
\* ------------------------------------------------------------------------
S_invalid_query == <<"Unable to generate a valid query for your question. Please try rephrasing.">>

_error_response(conversation_id, error_message, details) ==
    [answer |-> PyStr(<<"I encountered an issue processing your question: ">> \o error_message),
     confidence |-> PyStr(<<"low">>),
     query_used |-> PyNone,
     raw_data |-> None,
     conversation_id |-> conversation_id,
     error |-> PyStr(error_message)]

\* the locals of a returned invocation are gone; the response and the
\* history of the invocation remain
Return(rq, pc, response) ==
    [Idle EXCEPT !.pc = pc, !.response = response,
                 !.store_id = rq.store_id, !.conversation_id = rq.conversation_id,
                 !.conv_id = rq.conv_id,
                 !.calls = rq.calls, !.checks = rq.checks, !.raised = rq.raised,
                 !.lookup = rq.lookup, !.faulted = rq.faulted,
                 !.primary_error = rq.primary_error, !.engine = rq.engine,
                 !.graphql = rq.graphql, !.llm_format = rq.llm_format,
                 !.cache_ops = rq.cache_ops]

\* a variant that answers every exception with one fixed message
Except_masked(rq, message) ==
    Return([rq EXCEPT !.raised = Some(message)], "Errored",
           _error_response(rq.conv_id, <<"Internal error">>, <<>>))

\* a variant that leaves the invocation where it was, to call again
Except_again(rq, message) ==
    [rq EXCEPT !.raised = Some(message)]

\* the except clause of process_question (lines 192-198)
Except(rq, message) ==
    Return([rq EXCEPT !.raised = Some(message)], "Errored",
           _error_response(rq.conv_id, message, <<>>))

\* lines 60-71: conv_id and get_history, up to the call of classify
Start(r, E) ==
    /\ req[r].pc = "idle"
    /\ \E in \in E.inputs :
        LET conv_id == IF in.conversation_id # None THEN in.conversation_id[1] ELSE Uuid4(r)
            h == get_history(_conversations, _cleanup_counter, conv_id, now)
        IN  /\ req' = [req EXCEPT ![r] =
                        [Idle EXCEPT !.pc = "Classifying", !.store_id = in.store_id,
                                     !.question = in.question,
                                     !.conversation_id = in.conversation_id,
                                     !.conv_id = conv_id, !.history = h.history,
                                     !.calls = <<"get_history">>]]
            /\ _conversations' = h.conversations
            /\ _cleanup_counter' = h.counter
    /\ UNCHANGED <<now, cacheVars>>

\* lines 74-84: classify
Classify(r, E) ==
    /\ req[r].pc = "Classifying"
    /\ \E llm \in E.classifier :
        LET rq == [req[r] EXCEPT !.calls = Append(@, "classify")]
            c == classify(rq.question, rq.history, llm)
        IN  req' = [req EXCEPT ![r] =
                IF c.raised # None THEN Except(rq, c.raised[1])
                ELSE [rq EXCEPT !.pc = "Generating", !.intent_result = c.result,
                                !.history = <<>>]]
    /\ UNCHANGED <<now, cacheVars, convVars>>

\* the validate call of line 101 or 113, with its record in the history
Validated(rq, query) ==
    LET v == validate(query)
    IN  [rq EXCEPT !.calls = Append(@, "validate"),
                   !.checks = Append(@, [query |-> query, valid |-> v.valid,
                                         errors |-> v.errors])]

\* a variant that goes on with the query held before the validate call
ToCacheCheck_stale(rq, query) ==
    [rq EXCEPT !.pc = "CacheCheck", !.validation_errors = <<>>,
               !.cache_key = generate_key(rq.store_id, rq.shopifyql_query)]

\* a variant that goes from a valid query straight to the execution
ToCacheCheck_direct(rq, query) ==
    [rq EXCEPT !.pc = "Executing", !.shopifyql_query = query,
               !.validation_errors = <<>>,
               !.cache_key = generate_key(rq.store_id, query)]

\* the position after a validate call that found the query valid: line 128
ToCacheCheck(rq, query) ==
    [rq EXCEPT !.pc = "CacheCheck", !.shopifyql_query = query,
               !.validation_errors = <<>>,
               !.cache_key = generate_key(rq.store_id, query)]

\* lines 103-111: the first validation failed
ToRepair(rq, query, errors) ==
    [rq EXCEPT !.pc = "Repairing", !.shopifyql_query = query, !.validation_errors = errors]

\* a variant that repairs again
RepairFailed_retry(rq, query, errors) ==
    [rq EXCEPT !.pc = "Repairing", !.shopifyql_query = query, !.validation_errors = errors]

\* lines 119-125: the second validation failed
RepairFailed(rq, query, errors) ==
    Return(rq, "Errored", _error_response(rq.conv_id, S_invalid_query, errors))

\* lines 86-108: generate, then the first validate
Generate(r, E) ==
    /\ req[r].pc = "Generating"
    /\ \E llm \in E.generator :
        LET rq == [req[r] EXCEPT !.calls = Append(@, "generate")]
            g == generate(rq.question, rq.intent_result.intent,
                          rq.intent_result.entities, llm)
        IN  req' = [req EXCEPT ![r] =
                IF g.raised # None THEN Except(rq, g.raised[1])
                ELSE LET query == g.result.query
                         v == validate(query)
                     IN  IF v.valid THEN ToCacheCheck(Validated(rq, query), query)
                         ELSE ToRepair(Validated(rq, query), query, v.errors)]
    /\ UNCHANGED <<now, cacheVars, convVars>>

\* lines 109-125: regenerate_with_errors, then the second validate
Repair(r, E) ==
    /\ req[r].pc = "Repairing"
    /\ \E llm \in E.generator :
        LET rq == [req[r] EXCEPT !.calls = Append(@, "regenerate")]
            query == regenerate_with_errors(rq.shopifyql_query, rq.validation_errors,
                                            rq.question, rq.intent_result.intent, llm).query
            v == validate(query)
        IN  req' = [req EXCEPT ![r] =
                IF v.valid THEN ToCacheCheck(Validated(rq, query), query)
                ELSE RepairFailed(Validated(rq, query), query, v.errors)]
    /\ UNCHANGED <<now, cacheVars, convVars>>

\* a variant that takes every lookup for a miss
CacheHit_never(cached_result) == FALSE

\* line 131: if cached_result
CacheHit(cached_result) == cached_result # <<>>

\* lines 129-133 and CacheManager.get: conn is the outcome of connecting to
\* Redis (when that is attempted), op the outcome of the Redis GET
CacheGet(r, E) ==
    /\ req[r].pc = "CacheCheck"
    /\ \E conn \in E.conn, op \in E.op :
        LET attempted == _use_redis /\ _redis_client = None
            g == CacheManager_get(_use_redis, _redis_client, _cache, redis_db,
                                  req[r].cache_key, conn, op, now)
            cached_result == g.result
        IN  /\ (~attempted) => conn = "ok"
            /\ (~(g.use_redis /\ g.client # None)) => op = "ok"
            /\ _use_redis' = g.use_redis
            /\ _redis_client' = g.client
            /\ _cache' = g.cache
            /\ req' = [req EXCEPT ![r] =
                        [@ EXCEPT !.calls = Append(@, "cache_get"),
                                  !.lookup = Some([at |-> now, hit |-> g.hit]),
                                  !.faulted = @ \/ g.fault # "none",
                                  !.cache_ops = Append(@, [call |-> "get", fault |-> g.fault,
                                                           hit |-> g.hit]),
                                  !.query_data = cached_result,
                                  !.pc = IF CacheHit(cached_result) THEN "Formatting"
                                         ELSE "Executing"]]
    /\ UNCHANGED <<now, redis_db, convVars>>

\* lines 135-150: ShopifyClient.execute_query_with_fallback
Execute(r, E) ==
    /\ req[r].pc = "Executing"
    /\ \E primary \in E.primary, graphql_outcome \in E.graphql :
        LET x == execute_query_with_fallback(req[r].shopifyql_query,
                                             req[r].intent_result.intent,
                                             req[r].intent_result.entities, primary,
                                             graphql_outcome)
            rq == [req[r] EXCEPT !.calls = Append(@, "execute"),
                                 !.primary_error = Some(Get(execute_shopifyql(primary), "error")),
                                 !.graphql = x.graphql]
        IN  /\ (x.graphql = <<>>) => graphql_outcome = CHOOSE o \in E.graphql : TRUE
            /\ req' = [req EXCEPT ![r] =
                    IF x.raised # None THEN Except(rq, x.raised[1])
                    ELSE [rq EXCEPT !.pc = "CacheWriting", !.query_data = x.result,
                                    !.engine = Some(x.result)]]
    /\ UNCHANGED <<now, cacheVars, convVars>>

\* line 153 and CacheManager.set
CacheSet(r, E) ==
    /\ req[r].pc = "CacheWriting"
    /\ \E conn \in E.conn, op \in E.op :
        LET attempted == _use_redis /\ _redis_client = None
            g == CacheManager_set(_use_redis, _redis_client, _cache, redis_db,
                                  req[r].cache_key, req[r].query_data,
                                  CACHE_TTL_SECONDS, conn, op, now)
        IN  /\ (~attempted) => conn = "ok"
            /\ (~(g.use_redis /\ g.client # None)) => op = "ok"
            /\ _use_redis' = g.use_redis
            /\ _redis_client' = g.client
            /\ redis_db' = g.db
            /\ _cache' = g.cache
            /\ req' = [req EXCEPT ![r] =
                        [@ EXCEPT !.calls = Append(@, "cache_set"),
                                  !.faulted = @ \/ g.fault # "none",
                                  !.cache_ops = Append(@, [call |-> "set", fault |-> g.fault,
                                                           ok |-> g.ok]),
                                  !.pc = "Formatting"]]
    /\ UNCHANGED <<now, convVars>>

\* lines 175-190: the response of a request that succeeded
Response(rq, formatted_response) ==
    [answer |-> formatted_response["answer"],
     confidence |-> GetDefault(formatted_response, "confidence", PyStr(<<"medium">>)),
     query_used |-> PyStr(rq.shopifyql_query),
     data_source |-> GetDefault(rq.query_data, "source", PyStr(<<"shopifyql">>)),
     fallback_used |-> GetDefault(rq.query_data, "fallback_used", PyBool(FALSE)),
     raw_data |-> IF rq.query_data # <<>> THEN Some(rq.query_data) ELSE None,
     conversation_id |-> rq.conv_id,
     error |-> PyNone]

\* lines 160-190: format, add_turn and the response
Format(r, E) ==
    /\ req[r].pc = "Formatting"
    /\ \E llm \in E.formatter :
        LET rq0 == req[r]
            intent == rq0.intent_result.intent
            f == format(rq0.question, intent, rq0.query_data, llm)
            rq == [rq0 EXCEPT !.calls = Append(@, "format"), !.llm_format = f.llm_called]
        IN  /\ (~f.llm_called) => llm = CHOOSE o \in E.formatter : TRUE
            /\ IF f.raised # None
               THEN /\ req' = [req EXCEPT ![r] = Except(rq, f.raised[1])]
                    /\ UNCHANGED _conversations
               ELSE /\ _conversations' =
                            add_turn(_conversations, rq.conv_id, rq.question,
                                     f.result["answer"], rq.shopifyql_query, intent, now)
                    /\ req' = [req EXCEPT ![r] =
                                Return([rq EXCEPT !.calls = Append(@, "add_turn")], "Done",
                                       Response(rq, f.result))]
    /\ UNCHANGED <<now, cacheVars, _cleanup_counter>>

\* Time passes: the clock is read at cache lookups and writes and at the
\* stamping of a turn; it advances during the Shopify round trip and between
\* two invocations.
Tick(E) ==
    /\ now + ClockStep <= E.horizon
    /\ \/ \E r \in DOMAIN req : req[r].pc = "Executing"
       \/ /\ \E r \in DOMAIN req : Finished(r)
          /\ \E r \in DOMAIN req : req[r].pc = "idle"
          /\ \A r \in DOMAIN req : Finished(r) \/ req[r].pc = "idle"
    /\ now' = now + ClockStep
    /\ UNCHANGED <<req, cacheVars, convVars>>

\* the deployment: REDIS_URL configured and the redis package importable,
\* or not
Init(E) ==
    /\ now = 0
    /\ req = [r \in E.reqs |-> Idle]
    /\ _use_redis \in E.use_redis
    /\ _redis_client = None
    /\ _cache = <<>>
    /\ redis_db = <<>>
    /\ _conversations = <<>>
    /\ _cleanup_counter = 0

\* requests are served one after the other
Sequential(r) ==
    \A o \in DOMAIN req : (o < r => Finished(o)) /\ (o > r => req[o].pc = "idle")

Next(E) ==
    \/ \E r \in E.reqs : Start(r, E) /\ Sequential(r)
    \/ \E r \in E.reqs : Classify(r, E)
    \/ \E r \in E.reqs : Generate(r, E)
    \/ \E r \in E.reqs : Repair(r, E)
    \/ \E r \in E.reqs : CacheGet(r, E)
    \/ \E r \in E.reqs : Execute(r, E)
    \/ \E r \in E.reqs : CacheSet(r, E)
    \/ \E r \in E.reqs : Format(r, E)
    \/ Tick(E)

\* requests are served as they arrive: an invocation runs up to its next
\* await, and any other invocation may run in between
NextRace(E) ==
    \/ \E r \in E.reqs : Start(r, E)
    \/ \E r \in E.reqs : Classify(r, E)
    \/ \E r \in E.reqs : Generate(r, E)
    \/ \E r \in E.reqs : Repair(r, E)
    \/ \E r \in E.reqs : CacheGet(r, E)
    \/ \E r \in E.reqs : Execute(r, E)
    \/ \E r \in E.reqs : CacheSet(r, E)
    \/ \E r \in E.reqs : Format(r, E)
    \/ Tick(E)

SpecIntent == Init(EnvIntent) /\ [][Next(EnvIntent)]_vars

SpecRace == Init(EnvRace) /\ [][NextRace(EnvRace)]_vars

\* ------------------------------------------------------------------------
\* The general-API fallback on its own: execute_graphql_fallback called with
\* an intent and an entities dict
\* ------------------------------------------------------------------------
MaxLimit == 51

\* entities without a limit, with a null limit and with integer limits
PageEntities ==
    { <<>> } \cup
    { [limit |-> v] : v \in {PyNone, PyInt(-1), PyInt(0), PyInt(1), PyInt(50),
                             PyInt(MaxLimit)} }

\* the four intents, and one that takes the default branch (line 135)
PageIntents == valid_intents \cup {"products"}

PageOutcomes == { Gq_ok, Gq_exception, [kind |-> "errors", messages |-> <<ER_syntax>>] }

InitPage ==
    /\ now = 0
    /\ \E intent \in PageIntents, d \in PageEntities :
            req = <<[Idle EXCEPT !.pc = "Fallback",
                                 !.intent_result = [intent |-> intent,
                                                    entities |-> EntitiesDict(d)]]>>
    /\ _use_redis = FALSE
    /\ _redis_client = None
    /\ _cache = <<>>
    /\ redis_db = <<>>
    /\ _conversations = <<>>
    /\ _cleanup_counter = 0

\* the call, with the page size it asked for and what it returned
PageCall(r) ==
    /\ req[r].pc = "Fallback"
    /\ \E outcome \in PageOutcomes :
        LET g == execute_graphql_fallback(req[r].intent_result.intent,
                                          req[r].intent_result.entities.d, outcome)
        IN  req' = [req EXCEPT ![r] =
                [@ EXCEPT !.pc = "Done",
                          !.calls = Append(@, "execute_graphql_fallback"),
                          !.graphql = <<g.first>>,
                          !.engine = Some(g.result)]]
    /\ UNCHANGED <<now, cacheVars, convVars>>

NextPage == \E r \in DOMAIN req : PageCall(r)

SpecPage == InitPage /\ [][NextPage]_vars

\* ------------------------------------------------------------------------
\* The sales/orders fallback on its own: a page of orders with their line
\* items comes back from the general API
\* ------------------------------------------------------------------------
MaxOrders == 2

MaxItems == 2

\* line items: the same title at two unit prices, two titles whose totals
\* can tie; prices in thousandths of the currency unit, whole hundredths
OrderItems ==
    { [title |-> EN_hat, quantity |-> 1, price |-> 2500],
      [title |-> EN_hat, quantity |-> 2, price |-> 1990],
      [title |-> EN_cap, quantity |-> 3, price |-> 1000],
      [title |-> <<"S","c","a","r","f">>, quantity |-> 1, price |-> 3000] }

SeqsUpTo(S, n) == UNION {[1..k -> S] : k \in 0..n}

OrderPages ==
    SeqsUpTo({[lineItems |-> items] : items \in SeqsUpTo(OrderItems, MaxItems) \ {<<>>}},
             MaxOrders)

OrderEntities ==
    { <<>> } \cup { [limit |-> v] : v \in {PyInt(-1), PyInt(0), PyInt(1), PyInt(2)} }

InitOrders ==
    /\ now = 0
    /\ \E intent \in {"sales", "orders"}, d \in OrderEntities :
            req = <<[Idle EXCEPT !.pc = "Fallback",
                                 !.intent_result = [intent |-> intent,
                                                    entities |-> EntitiesDict(d)]]>>
    /\ _use_redis = FALSE
    /\ _redis_client = None
    /\ _cache = <<>>
    /\ redis_db = <<>>
    /\ _conversations = <<>>
    /\ _cleanup_counter = 0

\* the call, with the page the API returned kept in the record of the call;
\* the API returns a page only for a positive page size
OrdersCall(r) ==
    /\ req[r].pc = "Fallback"
    /\ \E outcome \in {[kind |-> "orders", edges |-> page] : page \in OrderPages}
                      \cup {Gq_exception, [kind |-> "errors", messages |-> <<ER_syntax>>]} :
        LET d == req[r].intent_result.entities.d
            g == execute_graphql_fallback(req[r].intent_result.intent, d, outcome)
        IN  /\ g.first < 1 => outcome.kind # "orders"
            /\ req' = [req EXCEPT ![r] =
                [@ EXCEPT !.pc = "Done",
                          !.calls = Append(@, "execute_graphql_fallback"),
                          !.graphql = <<g.first>>,
                          !.engine = Some(g.result),
                          !.response = IF outcome.kind = "orders"
                                       THEN [fetched |-> outcome.edges]
                                       ELSE [failed |-> outcome.kind]]]
    /\ UNCHANGED <<now, cacheVars, convVars>>

NextOrders == \E r \in DOMAIN req : OrdersCall(r)

SpecOrders == InitOrders /\ [][NextOrders]_vars

Spec == Init(Env) /\ [][Next(Env)]_vars

SpecSeq == Init(EnvSeq) /\ [][Next(EnvSeq)]_vars

SpecConv == Init(EnvConv) /\ [][Next(EnvConv)]_vars

SpecExec == Init(EnvExec) /\ [][Next(EnvExec)]_vars

SpecDown == Init(EnvDown) /\ [][Next(EnvDown)]_vars

\* ------------------------------------------------------------------------
\* The validate-query endpoint (main.py)
\* ------------------------------------------------------------------------
\* the body validate_query returns
validate_query(query) ==
    LET v == validate(query)
    IN  [valid |-> v.valid, errors |-> v.errors, query |-> query]

\* a call of the endpoint received, not yet served
InitValidate ==
    /\ now = 0
    /\ \E query \in ValidateQueries :
            req = <<[Idle EXCEPT !.pc = "ValidateQuery", !.shopifyql_query = query]>>
    /\ _use_redis = FALSE
    /\ _redis_client = None
    /\ _cache = <<>>
    /\ redis_db = <<>>
    /\ _conversations = <<>>
    /\ _cleanup_counter = 0

ValidateQuery(r) ==
    /\ req[r].pc = "ValidateQuery"
    /\ LET query == req[r].shopifyql_query
       IN  req' = [req EXCEPT ![r] =
                [Validated(req[r], query) EXCEPT
                    !.pc = "Done", !.response = validate_query(query)]]
    /\ UNCHANGED <<now, cacheVars, convVars>>

NextValidate == \E r \in DOMAIN req : ValidateQuery(r)

SpecValidate == InitValidate /\ [][NextValidate]_vars

\* ------------------------------------------------------------------------
\* Key derivation on its own (orchestrator.py line 128)
\* ------------------------------------------------------------------------
\* two invocations about to derive the cache key of their final query
InitKey ==
    /\ now = 0
    /\ \E sa \in StoreIds, sb \in StoreIds, qa \in KeyQueries, qb \in KeyQueries :
            req = <<[Idle EXCEPT !.pc = "GenerateKey", !.store_id = sa, !.shopifyql_query = qa],
                    [Idle EXCEPT !.pc = "GenerateKey", !.store_id = sb, !.shopifyql_query = qb]>>
    /\ _use_redis = FALSE
    /\ _redis_client = None
    /\ _cache = <<>>
    /\ redis_db = <<>>
    /\ _conversations = <<>>
    /\ _cleanup_counter = 0

\* cache_key = self.cache.generate_key(store_id, shopifyql_query)
GenerateKey(r) ==
    /\ req[r].pc = "GenerateKey"
    /\ req' = [req EXCEPT ![r] =
            [req[r] EXCEPT !.pc = "CacheCheck",
                           !.cache_key = generate_key(req[r].store_id, req[r].shopifyql_query)]]
    /\ UNCHANGED <<now, cacheVars, convVars>>

NextKey == \E r \in DOMAIN req : GenerateKey(r)

SpecKey == InitKey /\ [][NextKey]_vars

\* ------------------------------------------------------------------------
\* The in-process cache on its own (InMemoryCache, cache/redis_cache.py)
\* ------------------------------------------------------------------------
MaxOps == 4

MemKeys == {"k1", "k2"}

MemValues == {"v1", "v2"}

MemTtls == {ClockStep, CACHE_TTL_SECONDS}

\* an empty cache and a caller; the caller's cache_ops is the log of its
\* calls, with what each returned
InitMem ==
    /\ now = 0
    /\ req = <<[Idle EXCEPT !.pc = "InMemoryCache"]>>
    /\ _use_redis = FALSE
    /\ _redis_client = None
    /\ _cache = <<>>
    /\ redis_db = <<>>
    /\ _conversations = <<>>
    /\ _cleanup_counter = 0

MemLogged(entry) ==
    /\ req[1].pc = "InMemoryCache"
    /\ Len(req[1].cache_ops) < MaxOps
    /\ req' = [req EXCEPT ![1].cache_ops = Append(@, entry)]

MemSet ==
    \E key \in MemKeys, value \in MemValues, ttl \in MemTtls :
        /\ _cache' = InMemoryCache_set(_cache, key, value, ttl, now)
        /\ MemLogged([call |-> "set", key |-> key, value |-> Some(value),
                      ttl |-> ttl, at |-> now])
        /\ UNCHANGED <<now, _use_redis, _redis_client, redis_db, convVars>>

MemGet ==
    \E key \in MemKeys :
        LET g == InMemoryCache_get(_cache, key, now)
        IN  /\ _cache' = g.cache
            /\ MemLogged([call |-> "get", key |-> key, value |-> g.value,
                          ttl |-> 0, at |-> now])
            /\ UNCHANGED <<now, _use_redis, _redis_client, redis_db, convVars>>

MemDelete ==
    \E key \in MemKeys :
        /\ _cache' = InMemoryCache_delete(_cache, key).cache
        /\ MemLogged([call |-> "delete", key |-> key, value |-> None,
                      ttl |-> 0, at |-> now])
        /\ UNCHANGED <<now, _use_redis, _redis_client, redis_db, convVars>>

MemTick ==
    /\ req[1].pc = "InMemoryCache"
    /\ now + ClockStep <= MaxTime
    /\ now' = now + ClockStep
    /\ UNCHANGED <<req, cacheVars, convVars>>

NextMem == MemSet \/ MemGet \/ MemDelete \/ MemTick

SpecMem == InitMem /\ [][NextMem]_vars

\* ------------------------------------------------------------------------
\* The cache manager on its own (CacheManager, cache/redis_cache.py)
\* ------------------------------------------------------------------------
AdminQueries == {SQ_ok, SQ_noshow}

AdminValues == { [data |-> << [stock |-> PyInt(3)] >>, row_count |-> PyInt(1)] }

MaxAdminOps == 3

\* an empty cache under either deployment and a caller; the caller's
\* cache_ops is the log of its calls, with what each returned
InitAdmin ==
    /\ now = 0
    /\ req = <<[Idle EXCEPT !.pc = "CacheManager"]>>
    /\ _use_redis \in BOOLEAN
    /\ _redis_client = None
    /\ _cache = <<>>
    /\ redis_db = <<>>
    /\ _conversations = <<>>
    /\ _cleanup_counter = 0

AdminLogged(entry) ==
    /\ req[1].pc = "CacheManager"
    /\ Len(req[1].cache_ops) < MaxAdminOps
    /\ req' = [req EXCEPT ![1].cache_ops = Append(@, entry)]

\* the outcomes of the backend a call can meet
AdminOutcome(conn, op, redis) ==
    /\ (~(_use_redis /\ _redis_client = None)) => conn = "ok"
    /\ (~redis) => op = "ok"

AdminSet ==
    \E store_id \in StoreIds, query \in AdminQueries, value \in AdminValues,
       conn \in {"ok", "fail"}, op \in {"ok", "fault"} :
        LET key == generate_key(store_id, query)
            g == CacheManager_set(_use_redis, _redis_client, _cache, redis_db, key,
                                  value, CACHE_TTL_SECONDS, conn, op, now)
        IN  /\ AdminOutcome(conn, op, g.use_redis /\ g.client # None)
            /\ _use_redis' = g.use_redis
            /\ _redis_client' = g.client
            /\ _cache' = g.cache
            /\ redis_db' = g.db
            /\ AdminLogged([call |-> "set", store_id |-> store_id, key |-> key,
                            fault |-> g.fault, hit |-> FALSE, ok |-> g.ok, count |-> 0])
            /\ UNCHANGED <<now, convVars>>

AdminGet ==
    \E store_id \in StoreIds, query \in AdminQueries,
       conn \in {"ok", "fail"}, op \in {"ok", "fault"} :
        LET key == generate_key(store_id, query)
            g == CacheManager_get(_use_redis, _redis_client, _cache, redis_db, key,
                                  conn, op, now)
        IN  /\ AdminOutcome(conn, op, g.use_redis /\ g.client # None)
            /\ _use_redis' = g.use_redis
            /\ _redis_client' = g.client
            /\ _cache' = g.cache
            /\ AdminLogged([call |-> "get", store_id |-> store_id, key |-> key,
                            fault |-> g.fault, hit |-> g.hit, ok |-> TRUE, count |-> 0])
            /\ UNCHANGED <<now, redis_db, convVars>>

AdminInvalidate ==
    \E store_id \in StoreIds, conn \in {"ok", "fail"}, op \in {"ok", "fault"} :
        LET g == invalidate_store(_use_redis, _redis_client, _cache, redis_db,
                                  store_id, conn, op, now)
        IN  /\ AdminOutcome(conn, op, g.use_redis /\ g.client # None)
            /\ _use_redis' = g.use_redis
            /\ _redis_client' = g.client
            /\ _cache' = g.cache
            /\ redis_db' = g.db
            /\ AdminLogged([call |-> "invalidate_store", store_id |-> store_id,
                            key |-> <<>>, fault |-> g.fault, hit |-> FALSE, ok |-> TRUE,
                            count |-> g.count])
            /\ UNCHANGED <<now, convVars>>

AdminTick ==
    /\ req[1].pc = "CacheManager"
    /\ now + ClockStep <= MaxTime
    /\ now' = now + ClockStep
    /\ UNCHANGED <<req, cacheVars, convVars>>

NextAdmin == AdminSet \/ AdminGet \/ AdminInvalidate \/ AdminTick

SpecAdmin == InitAdmin /\ [][NextAdmin]_vars

\* ------------------------------------------------------------------------
\* The conversation store on its own (memory/conversation_store.py)
\* ------------------------------------------------------------------------
MaxAdds == 11

MaxReads == 3

StoreClockStep == 3600

StoreMaxTime == 7200

MaxRun == 100

MaxSweepAdds == 2

StoreIds2 == {"conv-1", "conv-2"}

\* callers that add turns to one conversation and read, delete and count
\* any; the length of a run of calls without a sweep is not counted
BStore ==
    [ids |-> StoreIds2, add_ids |-> {"conv-1"}, max_adds |-> MaxAdds,
     max_reads |-> MaxReads, max_run |-> 0, counters |-> {0, CleanupEvery - 2}]

\* callers that make long runs of calls
BSweep ==
    [ids |-> {"conv-1"}, add_ids |-> {"conv-1"}, max_adds |-> 1,
     max_reads |-> MaxRun, max_run |-> MaxRun, counters |-> {0}]

\* callers that add turns to two conversations at different times, with a
\* sweep due at their first or second get_history call
BSweepAll ==
    [ids |-> StoreIds2, add_ids |-> StoreIds2, max_adds |-> MaxSweepAdds,
     max_reads |-> MaxReads, max_run |-> 0,
     counters |-> {CleanupEvery - 1, CleanupEvery - 2}]

\* a caller of the store: the times at which it added a turn to each
\* conversation, the conversations it asked to delete, its number of
\* get_history calls, its last call with what that returned, and the length
\* of its current run of calls without a sweep
Caller(B) ==
    [pc |-> "ConversationStore",
     added |-> [c \in B.ids |-> <<>>],
     deleted |-> {},
     reads |-> 0,
     last |-> [call |-> "none"],
     run |-> 0]

\* a store that has served no call yet, or calls of get_history for
\* conversations it never held
InitStore(B) ==
    /\ now = 0
    /\ req = <<Caller(B)>>
    /\ _use_redis = FALSE
    /\ _redis_client = None
    /\ _cache = <<>>
    /\ redis_db = <<>>
    /\ _conversations = <<>>
    /\ _cleanup_counter \in B.counters

\* the caller after a call that did not sweep
StoreCalled(B, entry) ==
    [req[1] EXCEPT !.last = entry, !.run = IntMin(@ + 1, B.max_run)]

StoreGuard(B) ==
    /\ req[1].pc = "ConversationStore"
    /\ B.max_run > 0 => req[1].run < B.max_run

\* the n-th turn a caller adds to a conversation asks question n
StoreAddTurn(B) ==
    /\ StoreGuard(B)
    /\ \E c \in B.add_ids :
        LET n == Len(req[1].added[c]) + 1
        IN  /\ n <= B.max_adds
            /\ _conversations' = add_turn(_conversations, c, NatText(n), <<"a">>,
                                          PyNone, PyNone, now)
            /\ req' = <<[StoreCalled(B, [call |-> "add_turn", id |-> c, at |-> now])
                            EXCEPT !.added[c] = Append(@, now)]>>
    /\ UNCHANGED <<now, cacheVars, _cleanup_counter>>

StoreGetHistory(B) ==
    /\ StoreGuard(B)
    /\ req[1].reads < B.max_reads
    /\ \E c \in B.ids :
        LET h == get_history(_conversations, _cleanup_counter, c, now)
            entry == [call |-> "get_history", id |-> c, at |-> now,
                      turns |-> h.history]
        IN  /\ _conversations' = h.conversations
            /\ _cleanup_counter' = h.counter
            /\ req' = <<[StoreCalled(B, entry) EXCEPT
                            !.reads = @ + 1,
                            !.run = IF h.counter = 0 THEN 0 ELSE StoreCalled(B, entry).run]>>
    /\ UNCHANGED <<now, cacheVars>>

StoreGetConversation(B) ==
    /\ StoreGuard(B)
    /\ \E c \in B.ids :
        LET g == get_conversation(_conversations, c, now)
        IN  req' = <<StoreCalled(B, [call |-> "get_conversation", id |-> c, at |-> now,
                                     turns |-> IF g = None THEN <<>> ELSE g[1].turns,
                                     found |-> g # None])>>
    /\ UNCHANGED <<now, cacheVars, convVars>>

StoreDelete(B) ==
    /\ StoreGuard(B)
    /\ \E c \in B.ids :
        LET d == delete_conversation(_conversations, c)
        IN  /\ _conversations' = d.conversations
            /\ req' = <<[StoreCalled(B, [call |-> "delete_conversation", id |-> c,
                                         at |-> now, deleted |-> d.deleted])
                            EXCEPT !.deleted = @ \cup {c}]>>
    /\ UNCHANGED <<now, cacheVars, _cleanup_counter>>

StoreGetStats(B) ==
    /\ StoreGuard(B)
    /\ req' = <<StoreCalled(B, [call |-> "get_stats", at |-> now,
                                stats |-> get_stats(_conversations, now)])>>
    /\ UNCHANGED <<now, cacheVars, convVars>>

StoreTick(B) ==
    /\ req[1].pc = "ConversationStore"
    /\ now + StoreClockStep <= StoreMaxTime
    /\ now' = now + StoreClockStep
    /\ UNCHANGED <<req, cacheVars, convVars>>

NextStore(B) ==
    \/ StoreAddTurn(B)
    \/ StoreGetHistory(B)
    \/ StoreGetConversation(B)
    \/ StoreDelete(B)
    \/ StoreGetStats(B)
    \/ StoreTick(B)

SpecStore == InitStore(BStore) /\ [][NextStore(BStore)]_vars

SpecSweepAll == InitStore(BSweepAll) /\ [][NextStore(BSweepAll)]_vars

SpecSweep == InitStore(BSweep) /\ [][NextStore(BSweep)]_vars

\* ------------------------------------------------------------------------
\* The classifier on its own (agent/intent_classifier.py)
\* ------------------------------------------------------------------------
\* the collaborator answered with text that is not JSON
LLM_text == [kind |-> "text"]

ClassifyQuestions ==
    { Q_stock, Q_top,
      <<"S","t","o","c","k","?">>,
      <<"r","e","p","e","a","t"," ","b","u","y","e","r","s">>,
      <<"O","r","d","e","r","s">>,
      <<"l","i","s","t"," ","o","r","d","e","r","s">>,
      <<"r","e","v","e","n","u","e">>,
      <<>> }

\* no earlier turns, turns with an answer, a turn whose answer is None
ClassifyHistories ==
    { <<>>,
      << [question |-> Q_top, answer |-> PyStr(<<"ok">>)] >>,
      << [question |-> Q_top, answer |-> PyNone] >> }

ClassifyOutcomes ==
    { LLM_raise, LLM_text, C_json("inventory", Limit1), C_json("orders", EntitiesNull),
      C_json("refunds", EntitiesList) }

\* a request about to call classify
InitClassify ==
    /\ now = 0
    /\ \E question \in ClassifyQuestions, history \in ClassifyHistories :
            req = <<[Idle EXCEPT !.pc = "Classifying", !.question = question,
                                 !.history = history, !.calls = <<"get_history">>]>>
    /\ _use_redis = FALSE
    /\ _redis_client = None
    /\ _cache = <<>>
    /\ redis_db = <<>>
    /\ _conversations = <<>>
    /\ _cleanup_counter = 0

\* the call of classify, with what the collaborator did kept in the record
\* of the call
ClassifyQuestion(r) ==
    /\ req[r].pc = "Classifying"
    /\ \E llm \in ClassifyOutcomes :
        LET c == classify(req[r].question, req[r].history, llm)
        IN  req' = [req EXCEPT ![r] =
                [@ EXCEPT !.calls = Append(@, "classify"),
                          !.pc = IF c.raised # None THEN "Errored" ELSE "Generating",
                          !.raised = c.raised,
                          !.intent_result = c.result,
                          !.response = [llm |-> llm.kind]]]
    /\ UNCHANGED <<now, cacheVars, convVars>>

NextClassify == \E r \in DOMAIN req : ClassifyQuestion(r)

SpecClassify == InitClassify /\ [][NextClassify]_vars

\* ------------------------------------------------------------------------
\* The templated answer on its own (agent/response_formatter.py)
\* ------------------------------------------------------------------------
MaxRows == 12

\* the rows that may be short of stock
LowPositions == {1, 2, 5, 11, 12}

\* n product rows P1..Pn: 9 units (none for P2) at the positions in low,
\* 10 units elsewhere; the count under "stock" or "quantity_available"
ProductRows(n, low) ==
    [i \in 1..n |->
        LET units == PyInt(IF i \in low THEN (IF i = 2 THEN 0 ELSE 9) ELSE 10)
            title == PyStr(<<"P">> \o NatText(i))
        IN  IF i % 2 = 1 THEN [product_title |-> title, stock |-> units]
            ELSE [product_title |-> title, quantity_available |-> units]]

FormatRowSets ==
    { ProductRows(n, low) : n \in 1..MaxRows, low \in SUBSET LowPositions }

EnvFormat == [formatter |-> { LLM_raise }]

\* an inventory request whose rows have arrived and were written to the
\* cache, about to call format
InitFormat ==
    /\ now = 0
    /\ \E data \in FormatRowSets :
        LET query_data == [data |-> data, source |-> PyStr(<<"graphql_fallback">>),
                           fallback_used |-> PyBool(TRUE)]
        IN  req = <<[Idle EXCEPT !.pc = "Formatting", !.store_id = "shop-a.myshopify.com",
                                 !.question = Q_stock, !.conv_id = Uuid4(1),
                                 !.intent_result = _default_classification(Q_stock),
                                 !.shopifyql_query = SQ_ok,
                                 !.query_data = query_data,
                                 !.engine = Some(query_data),
                                 !.calls = <<"get_history", "classify", "generate",
                                             "validate", "cache_get", "execute",
                                             "cache_set">>]>>
    /\ _use_redis = FALSE
    /\ _redis_client = None
    /\ _cache = <<>>
    /\ redis_db = <<>>
    /\ _conversations = <<>>
    /\ _cleanup_counter = 1

NextFormat == \E r \in DOMAIN req : Format(r, EnvFormat)

SpecFormat == InitFormat /\ [][NextFormat]_vars

\* ------------------------------------------------------------------------
\* The inbound endpoint (main.py)
\* ------------------------------------------------------------------------
\* the fields QuestionResponse declares
QuestionResponseFields ==
    {"answer", "confidence", "query_used", "raw_data", "conversation_id", "error"}

\* QuestionResponse(**result): None when the validation of the required
\* string fields fails, else the declared fields; keys the model does not
\* declare are ignored
QuestionResponse(result) ==
    IF result["answer"][1] # "str" \/ result["confidence"][1] # "str"
    THEN None
    ELSE Some([f \in QuestionResponseFields \cap DOMAIN result |-> result[f]])

\* analyze_question, from the dict process_question returned: the status
\* and the body delivered to the caller
analyze_question(result) ==
    IF QuestionResponse(result) = None
    THEN [status |-> 500]
    ELSE [status |-> 200, body |-> QuestionResponse(result)[1]]

\* ------------------------------------------------------------------------
\* Properties
\* ------------------------------------------------------------------------
CountOf(seq, x) == Cardinality({i \in 1..Len(seq) : seq[i] = x})

Called(q, stage) == \E i \in 1..Len(q.calls) : q.calls[i] = stage

RepairedValid(q) == Len(q.checks) = 2 /\ q.checks[2].valid

RepairedInvalid(q) == Len(q.checks) = 2 /\ ~q.checks[2].valid

\* C1: within one request regenerate_with_errors is called at most once and
\* validate at most twice, and a second failed validation ends the request
\* Errored instead of starting another repair.
C1_RepairAtMostOnce ==
    \A r \in DOMAIN req :
        LET q == req[r]
        IN  /\ CountOf(q.calls, "regenerate") <= 1
            /\ CountOf(q.calls, "validate") <= 2
            /\ Len(q.checks) = CountOf(q.calls, "validate")
            /\ RepairedInvalid(q) => q.pc = "Errored" /\ q.raised = None

C1_Witness ==
    \E r \in DOMAIN req :
        /\ RepairedInvalid(req[r])
        /\ req[r].pc = "Errored"
        /\ CountOf(req[r].calls, "regenerate") = 1

\* C2: when the regenerated query is still invalid the response has error
\* set and query_used null, and the request neither reads nor writes the
\* cache nor calls the engine; when the regenerated query is valid the
\* request goes on to the cache check and the execution with that query.
C2_RepairOutcome ==
    \A r \in DOMAIN req :
        LET q == req[r]
        IN  /\ RepairedInvalid(q) =>
                /\ q.pc = "Errored"
                /\ PyTruthy(q.response.error)
                /\ q.response.query_used = PyNone
                /\ ~Called(q, "cache_get") /\ ~Called(q, "cache_set") /\ ~Called(q, "execute")
            /\ RepairedValid(q) =>
                /\ ~q.checks[1].valid
                /\ q.pc = "CacheCheck" \/ Called(q, "cache_get")
                /\ q.pc \in {"CacheCheck", "Executing", "CacheWriting", "Formatting"} =>
                        /\ q.shopifyql_query = q.checks[2].query
                        /\ q.cache_key = generate_key(q.store_id, q.checks[2].query)
                /\ q.pc = "Done" => q.response.query_used = PyStr(q.checks[2].query)

C2_Witness ==
    \E r \in DOMAIN req :
        /\ RepairedValid(req[r])
        /\ Called(req[r], "execute")
        /\ req[r].pc = "Done"
        /\ req[r].response.query_used = PyStr(req[r].checks[2].query)

\* C3: the response of a request that ends Errored because the query is
\* still invalid after the repair carries the user-facing message and the
\* list of validation errors of the second validate call.
C3_ErrorListInResponse ==
    \A r \in DOMAIN req :
        LET q == req[r]
        IN  (RepairedInvalid(q) /\ q.pc = "Errored") =>
                /\ q.response.error = PyStr(S_invalid_query)
                /\ "details" \in DOMAIN q.response
                /\ q.response["details"] = q.checks[2].errors

\* C4: every exception that escapes a stage ends the request with an
\* Errored response whose error is the exception's message and whose
\* conversation_id is the caller's id, or the id generated for the request;
\* every request that ends has a response.
C4_ExceptionsBecomeErrored ==
    \A r \in DOMAIN req :
        LET q == req[r]
        IN  /\ q.raised # None =>
                /\ q.pc = "Errored"
                /\ q.response.error = PyStr(q.raised[1])
                /\ q.response.conversation_id =
                        (IF q.conversation_id # None THEN q.conversation_id[1] ELSE Uuid4(r))
            /\ Finished(r) =>
                /\ q.response # <<>>
                /\ q.response.conversation_id = q.conv_id
                /\ (q.pc = "Errored") <=> (q.response.error # PyNone)

C4_Witness ==
    \E r \in DOMAIN req :
        /\ req[r].raised # None
        /\ req[r].calls[Len(req[r].calls)] = "classify"
        /\ req[r].pc = "Errored"
        /\ req[r].response.conversation_id = "conv-1"

\* the query of the request as it reached the cache check
FinalQuery(q) == q.checks[Len(q.checks)].query

\* a query up to white space and letter case
Normal(query) == Lower(JoinSpace(Split(query)))

\* b looks the cache up within the TTL of a's lookup, for the same store and
\* the same query up to white space and case, a's execution having returned
\* and no cache round trip having failed from a's request to b's
SamePair(a, b) ==
    /\ a < b
    /\ req[a].lookup # None /\ req[b].lookup # None
    /\ ~req[a].lookup[1].hit /\ req[a].engine # None
    /\ req[a].store_id = req[b].store_id
    /\ Normal(FinalQuery(req[a])) = Normal(FinalQuery(req[b]))
    /\ \A r \in a..b : ~req[r].faulted
    /\ req[b].lookup[1].at - req[a].lookup[1].at < CACHE_TTL_SECONDS

\* C5: of two requests made one after the other for the same store and the
\* same final query up to white space and case, the second within the TTL
\* of the first and no cache round trip failing, only the first calls the
\* engine, once, and the second's data equal the first's.
C5_CacheReuse ==
    \A a, b \in DOMAIN req :
        SamePair(a, b) =>
            /\ req[b].lookup[1].hit
            /\ CountOf(req[a].calls, "execute") = 1
            /\ CountOf(req[b].calls, "execute") = 0
            /\ (req[a].pc = "Done" /\ req[b].pc = "Done") =>
                    req[b].response.raw_data[1]["data"] = req[a].response.raw_data[1]["data"]

C5_Witness ==
    \E a, b \in DOMAIN req :
        /\ SamePair(a, b)
        /\ req[a].pc = "Done" /\ req[b].pc = "Done"
        /\ req[a].response.query_used # req[b].response.query_used
        /\ req[b].response.raw_data[1]["data"] # <<>>
        /\ req[b].lookup[1].at > req[a].lookup[1].at

\* C6: a request whose lookup hit goes to Formatting without calling the
\* engine or writing the cache; the cache is written at most once in a
\* request, only after a miss and right after the engine returned, and a
\* request that missed and whose engine call returned writes it once.
C6_HitSkipsExecution ==
    \A r \in DOMAIN req :
        LET q == req[r]
            c == q.calls
            hit == q.lookup # None /\ q.lookup[1].hit
            miss == q.lookup # None /\ ~q.lookup[1].hit
        IN  /\ hit => /\ ~Called(q, "execute") /\ ~Called(q, "cache_set")
                      /\ c[Len(c)] = "cache_get" => q.pc = "Formatting"
                      /\ \A i \in 1..(Len(c) - 1) : c[i] = "cache_get" => c[i + 1] = "format"
            /\ CountOf(c, "cache_set") <= 1
            /\ Called(q, "cache_set") =>
                    /\ miss /\ q.engine # None
                    /\ \E i \in 1..(Len(c) - 1) : c[i] = "execute" /\ c[i + 1] = "cache_set"
            /\ (miss /\ q.engine # None /\ q.pc # "CacheWriting") =>
                    CountOf(c, "cache_set") = 1

C6_Witness ==
    \E a, b \in DOMAIN req :
        /\ req[a].pc = "Done" /\ Called(req[a], "cache_set")
        /\ req[b].pc = "Done" /\ req[b].lookup[1].hit
        /\ ~Called(req[b], "execute")

\* the engine returned a result with an error and no data
EngineError(q) ==
    /\ q.engine # None
    /\ PyTruthy(Get(q.engine[1], "error"))
    /\ q.engine[1]["data"] = <<>>

\* C7: a request whose engine call returned a result with an error and no
\* data does not end Errored: it goes on to Formatting and ends Done with
\* the answer that is a fixed function of the error text, the formatter
\* not having called the text-generation collaborator.
C7_ErrorResultIsFormatted ==
    \A r \in DOMAIN req :
        LET q == req[r]
        IN  EngineError(q) =>
                /\ q.raised = None
                /\ q.pc \in {"CacheWriting", "Formatting", "Done"}
                /\ q.pc = "Done" =>
                        /\ ~q.llm_format
                        /\ q.response.error = PyNone
                        /\ q.response.answer =
                            PyStr(<<"I wasn't able to retrieve the data you requested. The issue was: ">>
                                    \o Get(q.engine[1], "error")[2]
                                    \o <<". Please try rephrasing your question or check that the store has the relevant data.">>)

C7_Witness ==
    \E r \in DOMAIN req :
        /\ EngineError(req[r])
        /\ req[r].pc = "Done"
        /\ "shopifyql_error" \in DOMAIN req[r].engine[1]

TurnsOf(conversations, c) ==
    IF c \in DOMAIN conversations THEN conversations[c].turns ELSE <<>>

KeepLast(turns) ==
    IF Len(turns) > MAX_TURNS THEN SubSeq(turns, Len(turns) - MAX_TURNS + 1, Len(turns))
    ELSE turns

\* the step in which request r returns its successful response
Succeeds(r) == req[r].pc # "Done" /\ req'[r].pc = "Done"

C8_Step ==
    /\ \A r \in DOMAIN req :
        Succeeds(r) =>
            LET c == req[r].conv_id
                old == TurnsOf(_conversations, c)
                new == TurnsOf(_conversations', c)
                turn == new[Len(new)]
            IN  /\ req[r].pc = "Formatting"
                /\ new # <<>>
                /\ new = KeepLast(Append(old, turn))
                /\ turn.question = req[r].question
                /\ turn.answer = req'[r].response.answer
                /\ PyStr(turn.query) = req'[r].response.query_used
                /\ turn.intent = req[r].intent_result.intent
                /\ DOMAIN _conversations' = DOMAIN _conversations \cup {c}
                /\ \A o \in DOMAIN _conversations \ {c} :
                        _conversations'[o] = _conversations[o]
    /\ (\A r \in DOMAIN req : ~Succeeds(r)) =>
            \A c \in DOMAIN _conversations' :
                /\ c \in DOMAIN _conversations
                /\ _conversations'[c] = _conversations[c]
    /\ \A r \in DOMAIN req : req'[r].pc = "Errored" => ~Called(req'[r], "add_turn")

\* C8: the step that ends a request successfully comes from Formatting and
\* appends exactly one turn, holding the question, the answer of the
\* response, the final query and the intent, to the request's conversation
\* and changes no other conversation; no other step, and so no request that
\* ends Errored, appends a turn to any conversation.
C8_OneTurnOnSuccess == [][C8_Step]_vars

C8_Witness ==
    \E a, b \in DOMAIN req :
        /\ a < b
        /\ req[a].pc = "Done" /\ req[b].pc = "Done"
        /\ req[a].conv_id = req[b].conv_id
        /\ Len(TurnsOf(_conversations, req[b].conv_id)) = 2
        /\ PyStr(_conversations[req[b].conv_id].turns[2].query) = req[b].response.query_used

\* the text contains, whatever the letter case, one of the patterns of
\* SHOPIFYQL_UNAVAILABLE_ERRORS
CapabilityAbsent(text) ==
    \E i \in 1..Len(SHOPIFYQL_UNAVAILABLE_ERRORS) :
        Contains(Lower(text), Lower(SHOPIFYQL_UNAVAILABLE_ERRORS[i]))

\* the ShopifyQL attempt of the request ended with an error of that kind
PrimaryAbsent(q) ==
    /\ q.primary_error # None
    /\ PyTruthy(q.primary_error[1])
    /\ CapabilityAbsent(q.primary_error[1][2])

FromFallback(q) ==
    /\ q.pc = "Done"
    /\ q.response.raw_data # None
    /\ Get(q.response.raw_data[1], "source") = PyStr(<<"graphql_fallback">>)

\* C12: the body delivered by analyze_question for a successful request
\* carries fallback_used = true and a data_source naming the fallback when
\* the data came from the general API, and fallback_used = false otherwise.
C12_DeliveredSourceFlags ==
    \A r \in DOMAIN req :
        LET q == req[r]
            out == analyze_question(q.response)
        IN  (q.pc = "Done" /\ out.status = 200) =>
                /\ "fallback_used" \in DOMAIN out.body
                /\ "data_source" \in DOMAIN out.body
                /\ out.body["fallback_used"] = PyBool(FromFallback(q))
                /\ FromFallback(q) =>
                        out.body["data_source"] = PyStr(<<"graphql_fallback">>)

\* the letters of word occur in query, in any letter case
Mentions(query, word) ==
    \E i \in 1..Len(query) :
        /\ i + Len(word) - 1 <= Len(query)
        /\ \A k \in 1..Len(word) : UpperChar(query[i + k - 1]) = word[k]

\* query has white space only
Blank(query) == \A i \in 1..Len(query) : IsSpace(query[i])

\* C13: validate answers a query that is not blank and in which FROM, or
\* SHOW, does not occur in any letter case with valid = false and an error
\* list holding, for each of the two that is missing, an error naming it.
C13_MissingClauseRejected ==
    \A r \in DOMAIN req : \A i \in 1..Len(req[r].checks) :
        LET c == req[r].checks[i]
        IN  \A clause \in {S_FROM, S_SHOW} :
                (~Blank(c.query) /\ ~Mentions(c.query, clause)) =>
                    /\ ~c.valid
                    /\ \E k \in 1..Len(c.errors) : Contains(c.errors[k], clause)

C13_Witness ==
    \E r \in DOMAIN req :
        /\ req[r].pc = "Done"
        /\ Len(req[r].checks) = 1
        /\ LET c == req[r].checks[1]
           IN  /\ Mentions(c.query, S_FROM) /\ ~Mentions(c.query, S_SHOW)
               /\ ~c.valid
               /\ c.errors = <<E_missing(S_SHOW)>>
               /\ req[r].response.errors = c.errors

\* the run of word characters a token starts with
WordPrefix(token) ==
    LET stops == {j \in 1..Len(token) : ~IsWord(token[j])}
    IN  IF stops = {} THEN token ELSE SubSeq(token, 1, SetMin(stops) - 1)

\* the table a query names: the word that starts the token following the
\* first FROM, None when there is no FROM or no word after it
TableNamed(query) ==
    LET tokens == Split(query)
        froms == {k \in 1..Len(tokens) : Upper(tokens[k]) = S_FROM}
    IN  IF froms = {} THEN None
        ELSE LET k == SetMin(froms)
             IN  IF k = Len(tokens) \/ WordPrefix(tokens[k + 1]) = <<>>
                 THEN None
                 ELSE Some(WordPrefix(tokens[k + 1]))

\* C14: validate answers valid = false to a query that names no table after
\* FROM, or a table that is not one of the valid tables (in any letter
\* case); for an unknown table an error lists the valid tables.
C14_UnknownTableRejected ==
    \A r \in DOMAIN req : \A i \in 1..Len(req[r].checks) :
        LET c == req[r].checks[i]
            table == TableNamed(c.query)
        IN  /\ table = None => ~c.valid
            /\ (table # None /\ Lower(table[1]) \notin Range(VALID_TABLES)) =>
                    /\ ~c.valid
                    /\ \E k \in 1..Len(c.errors) :
                            \A n \in 1..Len(VALID_TABLES) :
                                Contains(c.errors[k], VALID_TABLES[n])

C14_Witness ==
    \E r \in DOMAIN req :
        /\ req[r].pc = "Done"
        /\ Len(req[r].checks) = 1
        /\ LET c == req[r].checks[1]
           IN  /\ TableNamed(c.query) = Some(<<"o","r","d","e","r","s">>)
               /\ c.errors = <<E_invalid_table(<<"o","r","d","e","r","s">>)>>
               /\ req[r].response.valid = FALSE

\* the 1-based places at which the letters of word start in query
PlacesOf(query, word) ==
    {i \in 1..Len(query) :
        /\ i + Len(word) - 1 <= Len(query)
        /\ \A k \in 1..Len(word) : UpperChar(query[i + k - 1]) = word[k]}

\* some occurrence of first lies before every occurrence of second
Precedes(query, first, second) ==
    /\ PlacesOf(query, first) # {}
    /\ PlacesOf(query, second) # {}
    /\ SetMin(PlacesOf(query, first)) < SetMin(PlacesOf(query, second))

\* the number of "(" less the number of ")" among the first n characters
Depth(query, n) ==
    Cardinality({i \in 1..n : query[i] = "("}) - Cardinality({i \in 1..n : query[i] = ")"})

\* as many "(" as ")", and no prefix with more ")" than "("
Balanced(query) ==
    /\ Depth(query, Len(query)) = 0
    /\ \A n \in 1..Len(query) : Depth(query, n) >= 0

\* C15: validate answers valid = true with no errors to every query that
\* names one of the valid tables, has balanced parentheses, has FROM before
\* SHOW and has no UNTIL or a SINCE before UNTIL, whatever the fields of the
\* SHOW clause and whatever follows SINCE.
C15_WellFormedAccepted ==
    \A r \in DOMAIN req : \A i \in 1..Len(req[r].checks) :
        LET c == req[r].checks[i]
            table == TableNamed(c.query)
        IN  ( /\ table # None
              /\ Lower(table[1]) \in Range(VALID_TABLES)
              /\ Balanced(c.query)
              /\ Precedes(c.query, S_FROM, S_SHOW)
              /\ \/ PlacesOf(c.query, S_UNTIL) = {}
                 \/ Precedes(c.query, S_SINCE, S_UNTIL) ) =>
                        c.valid /\ c.errors = <<>>

C15_Witness ==
    \E r \in DOMAIN req :
        /\ req[r].pc = "Done"
        /\ Len(req[r].checks) = 1
        /\ LET c == req[r].checks[1]
           IN  /\ Mentions(c.query, <<"S","U","M","(","N","E","T","_","S","A","L","E","S",")">>)
               /\ Mentions(c.query, <<"S","I","N","C","E"," ","S","O","M","E","D","A","Y">>)
               /\ TableNamed(c.query) = Some(<<"P","r","o","d","u","c","t","s">>)
               /\ c.valid /\ c.errors = <<>>
               /\ req[r].response.valid

\* the error list holds the error about UNTIL used without SINCE
HasUntilError(c) == \E k \in 1..Len(c.errors) : c.errors[k] = E_until

\* C16, as stated: validate answers valid = false, with the error about
\* UNTIL used without SINCE, to every query that has an UNTIL with no SINCE
\* before it, a query whose only SINCE follows the UNTIL included.
C16_UntilNeedsPrecedingSince ==
    \A r \in DOMAIN req : \A i \in 1..Len(req[r].checks) :
        LET c == req[r].checks[i]
        IN  (PlacesOf(c.query, S_UNTIL) # {} /\ ~Precedes(c.query, S_SINCE, S_UNTIL)) =>
                ~c.valid /\ HasUntilError(c)

\* C16, amended: validate reports the error about UNTIL used without SINCE,
\* and answers valid = false, exactly for the queries in which UNTIL occurs
\* and SINCE occurs nowhere; a SINCE after the UNTIL is enough to avoid it.
C16_UntilNeedsSomeSince ==
    \A r \in DOMAIN req : \A i \in 1..Len(req[r].checks) :
        LET c == req[r].checks[i]
        IN  /\ HasUntilError(c) <=>
                    (PlacesOf(c.query, S_UNTIL) # {} /\ PlacesOf(c.query, S_SINCE) = {})
            /\ HasUntilError(c) => ~c.valid

C16_Witness ==
    \E r \in DOMAIN req :
        /\ req[r].pc = "Done"
        /\ Len(req[r].checks) = 1
        /\ LET c == req[r].checks[1]
           IN  /\ PlacesOf(c.query, S_UNTIL) # {}
               /\ PlacesOf(c.query, S_SINCE) = {}
               /\ c.errors = <<E_until>>
               /\ ~req[r].response.valid

\* C17: validate answers valid = false, with the unbalanced-parentheses
\* error, to every query whose parentheses do not balance: whose numbers of
\* "(" and ")" differ, or of which some prefix has more ")" than "(".
C17_UnbalancedRejected ==
    \A r \in DOMAIN req : \A i \in 1..Len(req[r].checks) :
        LET c == req[r].checks[i]
        IN  ~Balanced(c.query) =>
                /\ ~c.valid
                /\ \E k \in 1..Len(c.errors) : c.errors[k] = E_parens

\* query with its letters in lower case, every run of white space collapsed
\* to one space and no white space at its ends
RECURSIVE Collapsed(_, _, _)
Collapsed(query, started, pending) ==
    IF query = <<>> THEN <<>>
    ELSE IF IsSpace(Head(query)) THEN Collapsed(Tail(query), started, started)
    ELSE (IF pending THEN <<" ">> ELSE <<>>) \o <<LowerChar(Head(query))>>
            \o Collapsed(Tail(query), TRUE, FALSE)

Normalized(query) == Collapsed(query, FALSE, FALSE)

\* the key of the invocation has been derived
KeyDerived(q) == q.pc = "CacheCheck" /\ q.cache_key # <<>>

\* C18: two derivations for the same store and for queries that are equal
\* after collapsing white space, trimming and folding the letter case give
\* the same key, and the key of a query is the key of its normal form.
C18_KeyIgnoresNoise ==
    /\ \A a, b \in DOMAIN req :
            ( /\ KeyDerived(req[a]) /\ KeyDerived(req[b])
              /\ req[a].store_id = req[b].store_id
              /\ Normalized(req[a].shopifyql_query) = Normalized(req[b].shopifyql_query) ) =>
                    req[a].cache_key = req[b].cache_key
    /\ \A r \in DOMAIN req :
            KeyDerived(req[r]) =>
                /\ req[r].cache_key =
                        generate_key(req[r].store_id, Normalized(req[r].shopifyql_query))
                /\ Normalized(Normalized(req[r].shopifyql_query))
                        = Normalized(req[r].shopifyql_query)

C18_Witness ==
    \E a, b \in DOMAIN req :
        /\ KeyDerived(req[a]) /\ KeyDerived(req[b])
        /\ req[a].store_id = req[b].store_id
        /\ req[a].shopifyql_query # req[b].shopifyql_query
        /\ Lower(req[a].shopifyql_query) # Lower(req[b].shopifyql_query)
        /\ Normalized(req[a].shopifyql_query) # req[a].shopifyql_query
        /\ Normalized(req[a].shopifyql_query) = Normalized(req[b].shopifyql_query)
        /\ req[a].cache_key = req[b].cache_key

\* the cache call the step made, if it made one
CacheCallMade(r) ==
    /\ Len(req'[r].cache_ops) = Len(req[r].cache_ops) + 1

LastCacheOp(q) == q.cache_ops[Len(q.cache_ops)]

\* what holds of the cache calls of an invocation and of its end
FailSoft(q) ==
    /\ \A i \in 1..Len(q.cache_ops) :
            LET o == q.cache_ops[i]
            IN  o.fault # "none" =>
                    IF o.call = "get" THEN ~o.hit ELSE ~o.ok
    /\ (q.raised # None) => q.calls[Len(q.calls)] \notin {"cache_get", "cache_set"}
    /\ (q.faulted /\ q.pc \in {"Formatting", "Done", "Errored"}) => Called(q, "execute")
    /\ (q.faulted /\ q.pc \in {"Done", "Errored"}) =>
            /\ q.pc = "Done"
            /\ q.response.error = PyNone

C19_Step ==
    \A r \in DOMAIN req :
        /\ FailSoft(req[r])'
        /\ (CacheCallMade(r) /\ LastCacheOp(req'[r]).call = "set"
                /\ LastCacheOp(req'[r]).fault # "none") =>
                    /\ redis_db' = redis_db
                    /\ _cache' = _cache

\* C19: a cache get that meets a backend fault returns absent and a cache
\* set that meets one returns failure and leaves the stored entries as they
\* were; no exception of a cache call reaches process_question, and an
\* invocation with a faulting get or set executes its query and ends with
\* a successful response.
C19_CacheFailSoft == [][C19_Step]_vars

C19_Witness ==
    \E r \in DOMAIN req :
        /\ req[r].pc = "Done"
        /\ Len(req[r].cache_ops) = 2
        /\ req[r].cache_ops[1] = [call |-> "get", fault |-> "op", hit |-> FALSE]
        /\ req[r].cache_ops[2] = [call |-> "set", fault |-> "op", ok |-> FALSE]
        /\ Called(req[r], "execute")
        /\ req[r].response.error = PyNone
        /\ redis_db # <<>>

\* the calls logged before the i-th that set or deleted key
WritesBefore(log, i, key) ==
    {j \in 1..(i - 1) : log[j].key = key /\ log[j].call \in {"set", "delete"}}

\* what the i-th call, a get, has to return: the value of the latest set of
\* its key if that set is not undone by a delete and less than its ttl has
\* elapsed, else nothing
Expected(log, i) ==
    LET w == WritesBefore(log, i, log[i].key)
    IN  IF w = {} THEN None
        ELSE LET last == log[SetMax(w)]
             IN  IF last.call = "set" /\ log[i].at - last.at < last.ttl
                 THEN last.value
                 ELSE None

\* C20: a get of the in-process cache returns the value last set for the key
\* while less than the ttl of that set has elapsed and the key was not
\* deleted; at the expiry instant and after it the get returns nothing and
\* the entry is gone from the map.
C20_InProcessExpiry ==
    LET log == req[1].cache_ops
    IN  req[1].pc = "InMemoryCache" =>
            /\ \A i \in 1..Len(log) :
                    log[i].call = "get" => log[i].value = Expected(log, i)
            /\ (log # <<>> /\ log[Len(log)].call = "get" /\ log[Len(log)].value = None) =>
                    log[Len(log)].key \notin DOMAIN _cache

C20_Witness ==
    LET log == req[1].cache_ops
    IN  /\ req[1].pc = "InMemoryCache"
        /\ Len(log) = 4
        /\ log[1].call = "set" /\ log[1].ttl = ClockStep /\ log[1].at = 0
        /\ \A i \in 2..4 : log[i].call = "get" /\ log[i].key = log[1].key
        /\ log[2].at = 0 /\ log[2].value = log[1].value
        /\ log[3].at = ClockStep /\ log[3].value = None
        /\ log[4].at > ClockStep /\ log[4].value = None
        /\ _cache = <<>>

\* the calls logged after the i-th and before the j-th that set key
SetsBetween(log, i, j, key) ==
    {m \in (i + 1)..(j - 1) : log[m].call = "set" /\ log[m].key = key}

\* the entries of the store held by the backend in use
HeldFor(store_id) ==
    IF _use_redis /\ _redis_client # None
    THEN ScanKeys(redis_db, store_id, now)
    ELSE {k \in DOMAIN _cache : k[2] = store_id /\ now < _cache[k].expiry}

\* C21: after an invalidate_store(store_id) that met no backend failure has
\* returned, a get of a key derived from that store returns nothing until
\* the key is set again, whichever backend is in use; right after the call
\* the backend in use holds no entry of the store.
C21_InvalidateRemovesAll ==
    LET log == req[1].cache_ops
    IN  req[1].pc = "CacheManager" =>
            /\ \A i \in 1..Len(log), j \in 1..Len(log) :
                    (/\ i < j
                     /\ log[i].call = "invalidate_store" /\ log[i].fault = "none"
                     /\ log[j].call = "get" /\ log[j].store_id = log[i].store_id
                     /\ SetsBetween(log, i, j, log[j].key) = {}) => ~log[j].hit
            /\ (/\ log # <<>>
                /\ log[Len(log)].call = "invalidate_store"
                /\ log[Len(log)].fault = "none") => HeldFor(log[Len(log)].store_id) = {}

\* the conversation has had no inactivity longer than the TTL up to now and
\* the caller asked for no deletion of it
NeverExpired(q, c) ==
    LET a == q.added[c]
    IN  /\ c \notin q.deleted
        /\ \A i \in 1..(Len(a) - 1) : a[i + 1] - a[i] <= CONVERSATION_TTL_HOURS * 3600
        /\ a # <<>> => now - a[Len(a)] <= CONVERSATION_TTL_HOURS * 3600

\* the questions of the turns of a conversation, as numbers
QuestionsOf(turns) == [i \in 1..Len(turns) |-> ParseNat(turns[i].question)]

\* C22: after n add_turn calls on a conversation that never expired in
\* between, the stored turns are the last min(n, 10) turns added, in the
\* order they were added; no conversation ever stores more than 10 turns.
C22_KeepsMostRecentTen ==
    req[1].pc = "ConversationStore" =>
        /\ \A c \in DOMAIN _conversations : Len(_conversations[c].turns) <= 10
        /\ \A c \in DOMAIN req[1].added :
            LET n == Len(req[1].added[c])
                kept == IF n < 10 THEN n ELSE 10
            IN  (n > 0 /\ NeverExpired(req[1], c)) =>
                    /\ c \in DOMAIN _conversations
                    /\ QuestionsOf(_conversations[c].turns) =
                            [i \in 1..kept |-> n - kept + i]
                    /\ \A i \in 1..kept :
                            _conversations[c].turns[i].timestamp =
                                req[1].added[c][n - kept + i]

C22_Witness ==
    /\ req[1].pc = "ConversationStore"
    /\ Len(req[1].added["conv-1"]) = 11
    /\ NeverExpired(req[1], "conv-1")
    /\ now > 0
    /\ QuestionsOf(_conversations["conv-1"].turns) = [i \in 1..10 |-> i + 1]

\* the step is a call of get_history
GetHistoryStep == req'[1].last.call = "get_history" /\ req'[1].reads = req[1].reads + 1

C23_Step ==
    (req[1].pc = "ConversationStore" /\ GetHistoryStep) =>
        LET c == req'[1].last.id
            returned == req'[1].last.turns
            n == Len(req[1].added[c])
            kept == IF n < 10 THEN n ELSE 10
        IN  c \in DOMAIN _conversations =>
                IF now - _conversations[c].last_activity > 1 * 3600
                THEN /\ returned = <<>>
                     /\ c \notin DOMAIN _conversations'
                ELSE /\ returned = _conversations[c].turns
                     /\ c \in DOMAIN _conversations'
                     /\ _conversations'[c] = _conversations[c]
                     /\ NeverExpired(req[1], c) =>
                            QuestionsOf(returned) = [i \in 1..kept |-> n - kept + i]

\* C23: get_history on a stored conversation whose last activity is more
\* than one hour ago returns no turns and leaves the store without that
\* conversation; on a conversation whose last activity is at most one hour
\* ago it returns the stored turns in the order they were added and leaves
\* the conversation, its turns and its last-activity time as they were.
C23_GetHistoryExpiry == [][C23_Step]_vars

C23_Witness ==
    /\ req[1].pc = "ConversationStore"
    /\ req[1].last.call = "get_history" /\ req[1].last.id = "conv-1"
    /\ req[1].last.turns = <<>>
    /\ Len(req[1].added["conv-1"]) = 2
    /\ "conv-1" \notin req[1].deleted
    /\ now - req[1].added["conv-1"][2] > 3600
    /\ req[1].reads = 2
    /\ _cleanup_counter = 2
    /\ "conv-1" \notin DOMAIN _conversations

\* the k-th turn added to a conversation was followed, up to time t, by an
\* inactivity of more than the TTL; a holds the times of the adds
ExpiredSince(a, k, t) ==
    \E j \in k..Len(a) :
        (IF j < Len(a) THEN a[j + 1] ELSE t) - a[j] > 1 * 3600

\* C24: a read (get_history, get_conversation) returns no turn that was added
\* before an inactivity of more than one hour of its conversation, also when
\* add_turn was called on the conversation after that inactivity and before
\* any read.
C24_NoTurnFromBeforeExpiry ==
    LET last == req[1].last
    IN  (req[1].pc = "ConversationStore" /\ last.call \in {"get_history", "get_conversation"}) =>
            \A i \in 1..Len(last.turns) :
                ~ExpiredSince(req[1].added[last.id], ParseNat(last.turns[i].question), last.at)

\* C25: every kind of store call counts towards the periodic sweep: the
\* caller never completes a run of 100 consecutive calls (get_history,
\* add_turn, get_conversation, delete_conversation, get_stats in any mix)
\* during which no sweep ran.
C25_SweepEveryHundredCalls ==
    req[1].pc = "ConversationStore" => req[1].run < 100

\* the collaborator was called and could not be used: it raised, or what it
\* returned does not parse as JSON
ClassifierUnusable(q) ==
    /\ Called(q, "classify")
    /\ \A i \in 1..Len(q.history) : q.history[i].answer # PyNone
    /\ q.response.llm \in {"raise", "text"}

\* C26: when the collaborator raises or returns text that is not JSON,
\* classify raises nothing and returns the keyword-based classification of
\* the question that was asked.
C26_KeywordFallbackOfQuestion ==
    \A r \in DOMAIN req :
        (req[r].question \in ClassifyQuestions /\ ClassifierUnusable(req[r])) =>
            /\ req[r].raised = None
            /\ req[r].intent_result = _default_classification(req[r].question)

\* the stage whose call the request made last
LastCall(q) == q.calls[Len(q.calls)]

\* C27: a failure of the text-generation collaborator at classification,
\* generation or formatting never makes the request end in Errored: no
\* exception leaves classify, generate or format, whatever the
\* classification result and the rows.
C27_CollaboratorFailureNotFatal ==
    \A r \in DOMAIN req :
        (req[r].pc = "Errored" /\ req[r].raised # None) =>
            LastCall(req[r]) \notin {"classify", "generate", "format"}

\* the templated inventory answer of a finished request and its rows
InventoryAnswer(q) == q.response.answer[2]

InventoryRows(q) == q.engine[1].data

UnitsOf(row) ==
    IF "stock" \in DOMAIN row THEN row.stock[2] ELSE row.quantity_available[2]

\* the answer has the product line of the row, with its stock count
Enumerated(answer, row) ==
    Contains(answer, <<"* ">> \o row.product_title[2] \o <<": ">>
                        \o NatText(UnitsOf(row)) \o <<" units">>)

\* the answer names the row as low on stock
Flagged(answer, row) ==
    /\ Contains(answer, <<"Low stock alert: ">>)
    /\ Contains(answer, row.product_title[2] \o <<" (">>
                            \o NatText(UnitsOf(row)) \o <<" units)">>)

Templated(q) ==
    /\ q.pc = "Done" /\ q.llm_format /\ q.engine # None
    /\ LastCall(q) = "add_turn"
    /\ q.engine[1].data \in FormatRowSets

\* C28 as stated: the templated inventory answer has a product line for
\* every row of the result and names every row with fewer than 10 units as
\* low on stock, whatever the number of rows.
C28_EveryRowListed ==
    \A r \in DOMAIN req :
        Templated(req[r]) =>
            \A i \in 1..Len(InventoryRows(req[r])) :
                LET row == InventoryRows(req[r])[i]
                IN  /\ Enumerated(InventoryAnswer(req[r]), row)
                    /\ UnitsOf(row) < 10 => Flagged(InventoryAnswer(req[r]), row)

\* the positions of the rows with fewer than 10 units
LowRows(rows) == {i \in 1..Len(rows) : UnitsOf(rows[i]) < 10}

\* C28, amended: the templated inventory answer states the number of rows,
\* has a product line with the stock count for each of the first 10 rows
\* and for no other, says how many more products there are when there are
\* more than 10, and names as low on stock the first three rows with fewer
\* than 10 units and no other row; without such a row it has no alert.
C28_FirstTenListedFirstThreeFlagged ==
    \A r \in DOMAIN req :
        Templated(req[r]) =>
            LET rows == InventoryRows(req[r])
                answer == InventoryAnswer(req[r])
                n == Len(rows)
                low == LowRows(rows)
            IN  /\ Contains(answer, <<"Here are your ">> \o NatText(n) \o <<" products:">>)
                /\ \A i \in 1..n : Enumerated(answer, rows[i]) <=> i <= 10
                /\ Contains(answer, <<" more products.">>) <=> n > 10
                /\ n > 10 => Contains(answer, <<"... and ">> \o NatText(n - 10)
                                                \o <<" more products.">>)
                /\ \A i \in 1..n :
                        Flagged(answer, rows[i]) <=>
                            (i \in low /\ Cardinality({j \in low : j < i}) < 3)
                /\ Contains(answer, <<"Low stock alert: ">>) <=> low # {}

C28_Witness ==
    \E r \in DOMAIN req :
        /\ Templated(req[r])
        /\ Len(InventoryRows(req[r])) = 12
        /\ LowRows(InventoryRows(req[r])) = {1, 2, 5, 11, 12}
        /\ ~Enumerated(InventoryAnswer(req[r]), InventoryRows(req[r])[11])
        /\ Flagged(InventoryAnswer(req[r]), InventoryRows(req[r])[5])
        /\ ~Flagged(InventoryAnswer(req[r]), InventoryRows(req[r])[11])

\* the calls of a request that runs to its end, in order: with or without
\* the repair, with or without the execution (skipped on a cache hit)
StagePaths ==
    { <<"get_history", "classify", "generate", "validate">> \o repair
        \o <<"cache_get">> \o execution \o <<"format", "add_turn">> :
        repair \in {<<>>, <<"regenerate", "validate">>},
        execution \in {<<>>, <<"execute", "cache_set">>} }

IsPrefix(s, t) == Len(s) <= Len(t) /\ SubSeq(t, 1, Len(s)) = s

\* where a request can stand after the calls it has made
StageAfter(calls) ==
    IF calls = <<>> THEN {"idle"}
    ELSE CASE LastCall([calls |-> calls]) = "get_history" -> {"Classifying"}
           [] LastCall([calls |-> calls]) = "classify" -> {"Generating", "Errored"}
           [] LastCall([calls |-> calls]) = "generate" -> {"Errored"}
           [] LastCall([calls |-> calls]) = "validate" ->
                IF CountOf(calls, "regenerate") = 0 THEN {"Repairing", "CacheCheck"}
                ELSE {"CacheCheck", "Errored"}
           [] LastCall([calls |-> calls]) = "cache_get" -> {"Executing", "Formatting"}
           [] LastCall([calls |-> calls]) = "execute" -> {"CacheWriting", "Errored"}
           [] LastCall([calls |-> calls]) = "cache_set" -> {"Formatting"}
           [] LastCall([calls |-> calls]) = "format" -> {"Errored"}
           [] LastCall([calls |-> calls]) = "add_turn" -> {"Done"}
           [] OTHER -> {}

\* C29: the calls a request has made are an initial part of the fixed order
\* classify, generate, validate, (regenerate, validate,) cache lookup,
\* (execute, cache write,) format, add_turn; no stage is called twice except
\* validate after a repair; the request stands at the stage that follows its
\* last call, is Done exactly when the order is complete, and has returned
\* exactly when it is Done or Errored.
C29_StagesInFixedOrder ==
    \A r \in DOMAIN req :
        LET q == req[r]
        IN  /\ \E p \in StagePaths : IsPrefix(q.calls, p)
            /\ \A s \in {"get_history", "classify", "generate", "regenerate", "cache_get",
                         "execute", "cache_set", "format", "add_turn"} :
                    CountOf(q.calls, s) <= 1
            /\ CountOf(q.calls, "validate") <= 1 + CountOf(q.calls, "regenerate")
            /\ q.pc \in StageAfter(q.calls)
            /\ (q.pc = "Done") <=> (q.calls \in StagePaths)
            /\ (q.response # <<>>) <=> (q.pc \in {"Done", "Errored"})

C29_Witness ==
    /\ \E r \in DOMAIN req :
        /\ req[r].pc = "Done"
        /\ req[r].calls = <<"get_history", "classify", "generate", "validate", "regenerate",
                            "validate", "cache_get", "execute", "cache_set", "format",
                            "add_turn">>
    /\ \E r \in DOMAIN req :
        /\ req[r].pc = "Done"
        /\ req[r].calls = <<"get_history", "classify", "generate", "validate", "cache_get",
                            "format", "add_turn">>

\* ------------------------------------------------------------------------
\* C30: two invocations for the same store and the same query, interleaved
\* at their awaits against an empty cache. Each invocation executes at most
\* once; neither ends in Errored with an exception (the only Errored ending
\* is the query that stayed invalid after its repair); the entries of the
\* cache change at a cache write only, and a write leaves exactly one entry,
\* under the key of the writer, holding the writer's result: so the cache
\* holds one entry, equal to the result written last, once both have
\* completed.
\* ------------------------------------------------------------------------
Held(use_redis, db, cache) == IF use_redis THEN db ELSE cache

Writes(r) == req[r].pc = "CacheWriting" /\ req'[r].pc = "Formatting"

C30_Step ==
    /\ \A r \in DOMAIN req :
        /\ CountOf(req'[r].calls, "execute") <= 1
        /\ req'[r].pc = "Errored" =>
            /\ req'[r].raised = None
            /\ LastCall(req'[r]) = "validate"
        /\ Writes(r) =>
            /\ DOMAIN Held(_use_redis', redis_db', _cache') = {req[r].cache_key}
            /\ Held(_use_redis', redis_db', _cache')[req[r].cache_key].value =
                    json_dumps(req[r].query_data)
            /\ req[r].query_data = req'[r].engine[1]
    /\ (\A r \in DOMAIN req : ~Writes(r)) =>
            Held(_use_redis', redis_db', _cache') = Held(_use_redis, redis_db, _cache)
    /\ (\A r \in DOMAIN req : req'[r].pc = "Done") =>
            /\ Cardinality(DOMAIN Held(_use_redis', redis_db', _cache')) = 1
            /\ \E r \in DOMAIN req :
                /\ req'[r].engine # None
                /\ \A k \in DOMAIN Held(_use_redis', redis_db', _cache') :
                    Held(_use_redis', redis_db', _cache')[k].value =
                        json_dumps(req'[r].engine[1])

C30_RacingRequests == [][C30_Step]_vars

\* both missed, both executed, the shop answered them differently, both are
\* done, and the entry is the answer given to the first
C30_Witness ==
    /\ \A r \in DOMAIN req :
        /\ req[r].pc = "Done"
        /\ req[r].lookup # None /\ ~req[r].lookup[1].hit
        /\ CountOf(req[r].calls, "execute") = 1
    /\ DOMAIN req = 1..2
    /\ req[1].engine # req[2].engine
    /\ \E k \in DOMAIN Held(_use_redis, redis_db, _cache) :
        Held(_use_redis, redis_db, _cache)[k].value = json_dumps(req[1].engine[1])

\* ------------------------------------------------------------------------
\* C31: of two requests made one after the other for the same store and the
\* same query, the first having got from the engine a result with an error
\* and no data, the second, when it is done, has called the engine again,
\* also within the TTL of the cache.
\* ------------------------------------------------------------------------
C31_FailureRetriedNotReplayed ==
    \A a, b \in DOMAIN req :
        (SamePair(a, b) /\ EngineError(req[a]) /\ req[b].pc = "Done") =>
            Called(req[b], "execute")

\* ------------------------------------------------------------------------
\* C32: a request makes at most one classify, one generate, one regenerate,
\* two validate, one cache get, one execute, one cache set and one format
\* call; and, provided no call stays pending for ever (the request does not
\* remain for ever at the await of a stage), every request that was started
\* eventually is Done or Errored.
\* ------------------------------------------------------------------------
Awaiting == {"Classifying", "Generating", "Repairing", "CacheCheck", "Executing",
             "CacheWriting", "Formatting"}

CallsReturn == \A r \in 1..MaxReqs, s \in Awaiting : []<>(r \in DOMAIN req => req[r].pc # s)

WithinBudget ==
    \A r \in DOMAIN req :
        /\ \A s \in {"classify", "generate", "regenerate", "cache_get", "execute",
                     "cache_set", "format"} : CountOf(req[r].calls, s) <= 1
        /\ CountOf(req[r].calls, "validate") <= 2

C32_EveryRequestEnds ==
    /\ []WithinBudget
    /\ CallsReturn =>
        \A r \in 1..MaxReqs : (r \in DOMAIN req /\ req[r].pc # "idle")
                                ~> (r \in DOMAIN req /\ Finished(r))

\* a request that used the whole budget, the repair included, and is done
C32_Witness ==
    \E r \in DOMAIN req :
        /\ req[r].pc = "Done"
        /\ \A s \in {"classify", "generate", "regenerate", "cache_get", "execute",
                     "cache_set", "format"} : CountOf(req[r].calls, s) = 1
        /\ CountOf(req[r].calls, "validate") = 2

\* ------------------------------------------------------------------------
\* C33: validate reports every applicable error in one call. For a query
\* that is not blank, each of the six checks has its error in the list
\* exactly when the query violates it, and the list holds nothing else: as
\* many errors as violated checks. A blank query gets exactly one error.
\* valid is true exactly when the list is empty. The checks, as the
\* validator reads them: FROM, SHOW do not occur; no table after FROM, or
\* one that is not a valid table; the first FROM after the first SHOW; the
\* numbers of "(" and ")" differ; UNTIL occurs and SINCE does not.
\* ------------------------------------------------------------------------
HasError(c, e) == \E k \in 1..Len(c.errors) : c.errors[k] = e

Violated(query) ==
    LET table == TableNamed(query)
    IN  (IF ~Mentions(query, S_FROM) THEN {E_missing(S_FROM)} ELSE {})
        \cup (IF ~Mentions(query, S_SHOW) THEN {E_missing(S_SHOW)} ELSE {})
        \cup (IF table = None THEN {E_no_table}
              ELSE IF Lower(table[1]) \notin Range(VALID_TABLES)
                   THEN {E_invalid_table(Lower(table[1]))} ELSE {})
        \cup (IF Precedes(query, S_SHOW, S_FROM) THEN {E_order} ELSE {})
        \cup (IF Depth(query, Len(query)) # 0 THEN {E_parens} ELSE {})
        \cup (IF PlacesOf(query, S_UNTIL) # {} /\ PlacesOf(query, S_SINCE) = {}
              THEN {E_until} ELSE {})

C33_AllErrorsReported ==
    \A r \in DOMAIN req : \A i \in 1..Len(req[r].checks) :
        LET c == req[r].checks[i]
        IN  /\ c.valid <=> c.errors = <<>>
            /\ Blank(c.query) => c.errors = <<E_empty>>
            /\ ~Blank(c.query) =>
                /\ Range(c.errors) = Violated(c.query)
                /\ Len(c.errors) = Cardinality(Violated(c.query))

\* a query that violates three checks or more at once, of the clause, syntax
\* and table kinds, answered with as many errors
C33_Witness ==
    \E r \in DOMAIN req :
        /\ req[r].pc = "Done"
        /\ Len(req[r].checks) = 1
        /\ Len(req[r].checks[1].errors) >= 3
        /\ HasError(req[r].checks[1], E_parens)
        /\ ~HasError(req[r].checks[1], E_empty)
        /\ req[r].response.errors = req[r].checks[1].errors

\* ------------------------------------------------------------------------
\* C34: the sweep runs in the get_history call that brings the counter of
\* calls to 100, and in no other. The sweep removes every conversation whose
\* last activity is more than one hour ago and no other, and the
\* conversations that remain keep their turns and their last-activity time.
\* A call that does not sweep removes at most the conversation it asked
\* for, when that one is expired, and changes no other.
\* ------------------------------------------------------------------------
C34_Step ==
    (req[1].pc = "ConversationStore" /\ GetHistoryStep) =>
        LET due == _cleanup_counter = 100 - 1
            stale == {c \in DOMAIN _conversations :
                        now - _conversations[c].last_activity > 3600}
        IN  /\ _cleanup_counter' = IF due THEN 0 ELSE _cleanup_counter + 1
            /\ due =>
                /\ DOMAIN _conversations' = DOMAIN _conversations \ stale
                /\ \A c \in DOMAIN _conversations' :
                        _conversations'[c] = _conversations[c]
            /\ ~due =>
                /\ DOMAIN _conversations' \in
                        {DOMAIN _conversations,
                         DOMAIN _conversations \ ({req'[1].last.id} \cap stale)}
                /\ \A c \in DOMAIN _conversations' :
                        _conversations'[c] = _conversations[c]

C34_SweepRemovesExpiredOnly == [][C34_Step]_vars

\* the first get_history call of the caller, for conv-2, swept: conv-1, to
\* which a turn had been added and which nobody deleted, is gone, and
\* conv-2 is still there with its turns
C34_Witness ==
    /\ req[1].pc = "ConversationStore"
    /\ req[1].reads = 1
    /\ req[1].last.call = "get_history" /\ req[1].last.id = "conv-2"
    /\ _cleanup_counter = 0
    /\ req[1].deleted = {}
    /\ Len(req[1].added["conv-1"]) > 0
    /\ "conv-1" \notin DOMAIN _conversations
    /\ "conv-2" \in DOMAIN _conversations
    /\ req[1].last.turns = _conversations["conv-2"].turns
    /\ Len(req[1].last.turns) = MaxSweepAdds

\* ------------------------------------------------------------------------
\* C35: whatever the collaborator hands the classifier (text that is not
\* JSON, JSON that is not an object, an object without intent, an object
\* with an unknown intent) and when it raises, the call of classify returns
\* and the intent it returns is inventory, sales, customers or orders; so
\* is the intent a request holds from then on, and the intent of every
\* stored turn.
\* ------------------------------------------------------------------------
C35_IntentAlwaysValid ==
    /\ \A r \in DOMAIN req :
        /\ Called(req[r], "classify") =>
                ~(req[r].pc = "Errored" /\ LastCall(req[r]) = "classify")
        /\ req[r].intent_result # <<>> => req[r].intent_result.intent \in valid_intents
        /\ (req[r].pc \in {"Generating", "Repairing", "CacheCheck", "Executing",
                           "CacheWriting", "Formatting"}) => req[r].intent_result # <<>>
    /\ \A c \in DOMAIN _conversations :
        \A i \in 1..Len(_conversations[c].turns) :
            _conversations[c].turns[i].intent \in valid_intents

\* requests done with each of the four intents stored in their turn, the
\* question about returns among them
C35_Witness ==
    \E r \in DOMAIN req :
        /\ req[r].pc = "Done"
        /\ req[r].conv_id \in DOMAIN _conversations
        /\ _conversations[req[r].conv_id].turns[1].question = Q_returns
        /\ _conversations[req[r].conv_id].turns[1].intent = "orders"
        /\ req[r].graphql # <<>>

\* ------------------------------------------------------------------------
\* C36: the template query built when the generator's collaborator fails
\* passes validate, and where it has a LIMIT clause the word after LIMIT is
\* a non-negative integer literal, for every classification the classifier
\* hands over, the keyword classification with its null limit included.
\* ------------------------------------------------------------------------
\* the query did not come from the collaborator
FromTemplate(query) ==
    query \notin {g.query : g \in {o \in EnvDown.generator : o.kind = "json"}}

IsNatLiteral(token) ==
    /\ token # <<>>
    /\ \A i \in 1..Len(token) : token[i] \in Range(DigitChars)

LimitsOf(query) ==
    LET tokens == Split(query)
    IN  {IF k < Len(tokens) THEN tokens[k + 1] ELSE <<>> :
            k \in {j \in 1..Len(tokens) : Upper(tokens[j]) = S_LIMIT}}

C36_TemplateQueryWellFormed ==
    \A r \in DOMAIN req :
        (Len(req[r].checks) >= 1 /\ FromTemplate(req[r].checks[1].query)) =>
            /\ req[r].checks[1].valid
            /\ \A token \in LimitsOf(req[r].checks[1].query) : IsNatLiteral(token)

\* ------------------------------------------------------------------------
\* C37: every listing call of a fallback routine asks for a page of at most
\* 50 objects, whatever entities.limit is: absent, null, zero or any
\* integer. It asks for the limit when that is an integer other than zero
\* and at most 50, and for the default of the routine (10 or 20) when the
\* limit is absent, null or zero.
\* ------------------------------------------------------------------------
C37_PageSizeAtMostFifty ==
    \A r \in DOMAIN req : \A i \in 1..Len(req[r].graphql) :
        LET first == req[r].graphql[i]
            d == req[r].intent_result.entities.d
            limit == IF "limit" \in DOMAIN d THEN d.limit ELSE PyNone
        IN  /\ first <= 50
            /\ (limit \notin {PyNone, PyInt(0)} /\ limit[2] <= 50) => first = limit[2]
            /\ (limit \notin {PyNone, PyInt(0)} /\ limit[2] > 50) => first = 50
            /\ limit \in {PyNone, PyInt(0)} => first \in {10, 20}

\* the orders routine asked for more than 50 objects and called for 50
C37_Witness ==
    \E r \in DOMAIN req :
        /\ req[r].pc = "Done"
        /\ req[r].intent_result.intent = "orders"
        /\ req[r].intent_result.entities.d = [limit |-> PyInt(MaxLimit)]
        /\ req[r].graphql = <<50>>
        /\ req[r].engine # None

\* ------------------------------------------------------------------------
\* C38: the rows the sales/orders fallback returns for a fetched page of
\* orders. No two rows have the same title; a row's title is the title of
\* a fetched line item, its units_sold the sum of the quantities and its
\* total_sales the sum of quantity times unit price of the fetched line
\* items of that title; total_sales does not increase from a row to the
\* next; there are at most limit rows (limit being entities.limit, 20 when
\* that is absent or zero), and as many as there are titles when those are
\* fewer; a title left out has a total no greater than any row's.
\* ------------------------------------------------------------------------
\* the places of the line items of a page: order, position in the order
ItemPlaces(page) ==
    {p \in (1..Len(page)) \X (1..MaxItems) : p[2] <= Len(page[p[1]].lineItems)}

RECURSIVE SumQuantity(_, _)
SumQuantity(page, places) ==
    IF places = {} THEN 0
    ELSE LET p == CHOOSE x \in places : TRUE
         IN  page[p[1]].lineItems[p[2]].quantity + SumQuantity(page, places \ {p})

RECURSIVE SumAmount(_, _)
SumAmount(page, places) ==
    IF places = {} THEN 0
    ELSE LET p == CHOOSE x \in places : TRUE
             item == page[p[1]].lineItems[p[2]]
         IN  item.quantity * item.price + SumAmount(page, places \ {p})

PlacesOfTitle(page, title) ==
    {p \in ItemPlaces(page) : page[p[1]].lineItems[p[2]].title = title}

C38_OrdersAggregate ==
    \A r \in DOMAIN req :
        (req[r].pc = "Done" /\ "fetched" \in DOMAIN req[r].response) =>
            LET page == req[r].response.fetched
                rows == req[r].engine[1]["data"]
                d == req[r].intent_result.entities.d
                limit == IF "limit" \in DOMAIN d /\ d.limit # PyInt(0) THEN d.limit[2] ELSE 20
                titles == {page[p[1]].lineItems[p[2]].title : p \in ItemPlaces(page)}
                total(t) == SumAmount(page, PlacesOfTitle(page, t))
            IN  /\ \A i, j \in 1..Len(rows) :
                        rows[i]["product_title"] = rows[j]["product_title"] => i = j
                /\ \A i \in 1..Len(rows) :
                        LET t == rows[i]["product_title"][2]
                        IN  /\ t \in titles
                            /\ rows[i]["units_sold"] =
                                    PyInt(SumQuantity(page, PlacesOfTitle(page, t)))
                            /\ rows[i]["total_sales"] = PyInt(total(t))
                /\ \A i \in 1..(Len(rows) - 1) :
                        rows[i]["total_sales"][2] >= rows[i + 1]["total_sales"][2]
                /\ Len(rows) <= limit
                /\ Len(rows) = IntMin(limit, Cardinality(titles))
                /\ \A t \in titles :
                        (\A i \in 1..Len(rows) : rows[i]["product_title"][2] # t) =>
                            \A i \in 1..Len(rows) : rows[i]["total_sales"][2] >= total(t)

\* a page of two orders in which the same title occurs at two prices and in
\* both orders, three titles in all, answered with the two best rows
C38_Witness ==
    \E r \in DOMAIN req :
        /\ req[r].pc = "Done"
        /\ "fetched" \in DOMAIN req[r].response
        /\ Len(req[r].response.fetched) = 2
        /\ req[r].intent_result.entities.d = [limit |-> PyInt(2)]
        /\ Cardinality({req[r].response.fetched[p[1]].lineItems[p[2]].title :
                            p \in ItemPlaces(req[r].response.fetched)}) = 3
        /\ Len(req[r].engine[1]["data"]) = 2
        /\ req[r].engine[1]["data"][1] =
                [product_title |-> PyStr(EN_hat), units_sold |-> PyInt(3),
                 total_sales |-> PyInt(6480)]


\* ------------------------------------------------------------------------
\* GeminiClient (llm/gemini_client.py)
\* ------------------------------------------------------------------------
MAX_RETRIES == 3

\* the canned texts of _mock_response, each named by its first field
Mock_classification == <<"{\"intent\": \"sales\", \"confidence\": \"high\", ...}">>

Mock_query == <<"{\"query\": \"FROM sales SHOW product_title, ... LIMIT 5\", ...}">>

Mock_answer == <<"{\"answer\": \"Based on your store's data from the last 7 days, ...\", ...}">>

Mock_plain == <<"Mock response - Please configure GOOGLE_API_KEY for real responses">>

_mock_response(prompt) ==
    LET prompt_lower == Lower(prompt)
    IN  IF Contains(prompt_lower, <<"i","n","t","e","n","t">>)
           \/ Contains(prompt_lower, <<"c","l","a","s","s","i","f","y">>)
        THEN Mock_classification
        ELSE IF Contains(prompt_lower, <<"s","h","o","p","i","f","y","q","l">>)
                \/ Contains(prompt_lower, <<"q","u","e","r","y">>)
        THEN Mock_query
        ELSE IF Contains(prompt_lower, <<"f","o","r","m","a","t">>)
                \/ Contains(prompt_lower, <<"r","e","s","p","o","n","s","e">>)
        THEN Mock_answer
        ELSE Mock_plain

\* One generate call.  The call is suspended at each attempt (run_in_executor,
\* line 62) and at each backoff (asyncio.sleep, line 89); the model's answer
\* to an attempt is the environment's.
Prompts ==
    { <<"C","l","a","s","s","i","f","y"," ","i","t">>,
      <<"a"," ","Q","U","E","R","Y">>,
      <<"f","o","r","m","a","t">>,
      <<"h","i">> }

T_json == <<"{\"intent\": \"inventory\"}">>

T_prose == <<"Sure!">>

X_quota == <<"429 Resource has been exhausted">>

X_blocked == <<"response.text: the candidate was blocked">>

\* what one generate_content call and the read of response.text come to
AttemptOutcomes ==
    { [kind |-> "text", text |-> T_json],
      [kind |-> "text", text |-> T_prose],
      [kind |-> "text", text |-> <<>>],
      [kind |-> "raise", error |-> X_quota],
      [kind |-> "raise", error |-> X_blocked] }

InitGenerate ==
    /\ now = 0
    /\ \E configured \in BOOLEAN, prompt \in Prompts :
            req = <<[pc |-> "Called",
                     model |-> configured,      \* self.model is not None
                     prompt |-> prompt,
                     attempt |-> 0,
                     attempts |-> <<>>,         \* the outcomes of the attempts made
                     slept |-> <<>>,            \* the backoff delays served
                     returned |-> None,
                     mocked |-> FALSE,          \* the return value is _mock_response's
                     raised |-> None]>>
    /\ _use_redis = FALSE
    /\ _redis_client = None
    /\ _cache = <<>>
    /\ redis_db = <<>>
    /\ _conversations = <<>>
    /\ _cleanup_counter = 0

\* line 93, and line 50
ReturnMock(rq) ==
    [rq EXCEPT !.pc = "Returned", !.returned = Some(_mock_response(rq.prompt)),
               !.mocked = TRUE]

\* the head of the for loop (line 59) with the attempt number given
EnterAttempt(rq, attempt) ==
    IF attempt < MAX_RETRIES
    THEN [rq EXCEPT !.pc = "Attempting", !.attempt = attempt]
    ELSE ReturnMock(rq)

\* lines 49-59
GenerateCalled(r) ==
    /\ req[r].pc = "Called"
    /\ req' = [req EXCEPT ![r] = IF ~ @.model THEN ReturnMock(@) ELSE EnterAttempt(@, 0)]
    /\ UNCHANGED <<now, cacheVars, convVars>>

\* lines 60-91: one attempt returns
AttemptResult(rq, outcome) ==
    LET made == [rq EXCEPT !.attempts = Append(@, outcome)]
    IN  CASE outcome.kind = "text" /\ outcome.text # <<>> ->
                [made EXCEPT !.pc = "Returned", !.returned = Some(outcome.text)]
          [] outcome.kind = "text" ->
                EnterAttempt(made, rq.attempt + 1)
          [] outcome.kind = "raise" /\ rq.attempt < MAX_RETRIES - 1 ->
                [made EXCEPT !.pc = "Sleeping"]
          [] OTHER ->
                [made EXCEPT !.pc = "Raised", !.raised = Some(outcome.error)]

GenerateAttempt(r) ==
    /\ req[r].pc = "Attempting"
    /\ \E outcome \in AttemptOutcomes :
            req' = [req EXCEPT ![r] = AttemptResult(@, outcome)]
    /\ UNCHANGED <<now, cacheVars, convVars>>

\* line 89: the backoff ends and the loop goes on
GenerateBackoff(r) ==
    /\ req[r].pc = "Sleeping"
    /\ req' = [req EXCEPT ![r] =
            EnterAttempt([@ EXCEPT !.slept = Append(@, 2 ^ req[r].attempt)],
                         req[r].attempt + 1)]
    /\ UNCHANGED <<now, cacheVars, convVars>>

NextGenerate ==
    \E r \in DOMAIN req :
        \/ GenerateCalled(r)
        \/ GenerateAttempt(r)
        \/ GenerateBackoff(r)

SpecGenerate == InitGenerate /\ [][NextGenerate]_vars

\* C39: a finished generate call returns the canned mock text only when no
\* credentials are configured; with credentials configured it has made at
\* most MAX_RETRIES attempts and either returned the text of its last attempt
\* or raised the failure of its last attempt.
C39_MockOnlyWithoutCredentials ==
    \A r \in DOMAIN req :
        req[r].pc \in {"Returned", "Raised"} =>
            /\ req[r].mocked => ~ req[r].model
            /\ req[r].model =>
                /\ Len(req[r].attempts) \in 1..MAX_RETRIES
                /\ LET last == req[r].attempts[Len(req[r].attempts)]
                   IN  \/ /\ req[r].pc = "Returned"
                          /\ last.kind = "text"
                          /\ last.text # <<>>
                          /\ req[r].returned = Some(last.text)
                       \/ /\ req[r].pc = "Raised"
                          /\ last.kind = "raise"
                          /\ req[r].raised = Some(last.error)


\* ------------------------------------------------------------------------
\* Two invocations in flight on one conversation
\* ------------------------------------------------------------------------
\* Both callers send the id of the same conversation, each its own question
\* or the same one; a generated query may need the repair, and a formatter
\* answer may come from the collaborator or from the template.
EnvTalk ==
    [reqs |-> 1..2,
     horizon |-> ClockStep,
     inputs |-> { Input("shop-a.myshopify.com", q, Some("conv-1")) : q \in {Q_stock, Q_top} },
     classifier |-> { LLM_raise },
     generator |-> { G_json(SQ_ok), G_json(SQ_noshow) },
     formatter |-> { LLM_raise, F_answer },
     primary |-> { P_table(PyInt(3)) },
     graphql |-> { Gq_ok },
     use_redis |-> {FALSE},
     conn |-> {"ok"},
     op |-> {"ok"}]

\* the turns the conversation holds when the two invocations arrive
PriorTurnCounts == {0, MAX_TURNS - 1, MAX_TURNS}

RECURSIVE WithPriorTurns(_, _)
WithPriorTurns(conversations, n) ==
    IF n = 0 THEN conversations
    ELSE add_turn(WithPriorTurns(conversations, n - 1), "conv-1", Q_buyers,
                  PyStr(<<"You have 2 customers.">>), SQ_ok, "customers", 0)

InitTalk ==
    /\ now = 0
    /\ req = [r \in EnvTalk.reqs |-> Idle]
    /\ _use_redis = FALSE
    /\ _redis_client = None
    /\ _cache = <<>>
    /\ redis_db = <<>>
    /\ \E n \in PriorTurnCounts : _conversations = WithPriorTurns(<<>>, n)
    /\ _cleanup_counter = 0

SpecTalk == InitTalk /\ [][NextRace(EnvTalk)]_vars

\* C40: with two invocations in flight on one conversation id, the step in
\* which an invocation succeeds puts its turn last in the conversation and
\* keeps the turns that were there in their order, dropping only the oldest
\* beyond MAX_TURNS; when the other invocation has succeeded before, its turn
\* is the one just before; and no other step changes the conversation.
C40_Step ==
    /\ \A r \in DOMAIN req :
        (req[r].pc = "Formatting" /\ req'[r].pc = "Done") =>
            LET was == TurnsOf(_conversations, req[r].conv_id)
                is == TurnsOf(_conversations', req[r].conv_id)
                n == Len(is)
            IN  /\ n = IF Len(was) < MAX_TURNS THEN Len(was) + 1 ELSE MAX_TURNS
                /\ is[n].question = req[r].question
                /\ is[n].answer = req'[r].response.answer
                /\ PyStr(is[n].query) = req'[r].response.query_used
                /\ \A k \in 1..(n - 1) : is[n - k] = was[Len(was) - k + 1]
                /\ \A o \in DOMAIN req \ {r} :
                    (req[o].pc = "Done" /\ req[o].conv_id = req[r].conv_id) =>
                        /\ n >= 2
                        /\ is[n - 1].answer = req[o].response.answer
                        /\ PyStr(is[n - 1].query) = req[o].response.query_used
    /\ (\A r \in DOMAIN req : ~ (req[r].pc = "Formatting" /\ req'[r].pc = "Done")) =>
            \A id \in DOMAIN _conversations :
                TurnsOf(_conversations', id) = TurnsOf(_conversations, id)

C40_NoLostTurn == [][C40_Step]_vars

\* both invocations have succeeded on a conversation that was full: their
\* turns, of different questions, are the last two of the ten
C40_Witness ==
    /\ \A r \in DOMAIN req : req[r].pc = "Done" /\ req[r].conv_id = "conv-1"
    /\ LET turns == TurnsOf(_conversations, "conv-1")
       IN  /\ Len(turns) = MAX_TURNS
           /\ {turns[MAX_TURNS - 1].question, turns[MAX_TURNS].question} = {Q_stock, Q_top}
           /\ turns[MAX_TURNS - 2].question = Q_buyers
           /\ turns[MAX_TURNS - 1].answer # turns[MAX_TURNS].answer

====
